---- MODULE Spec2Model ----
(***************************************************************************)
(* Test identifier codec and test record store of the load-development     *)
(* tool (app.py, editor.py, utils.py, generate_test_data.py).              *)
(*                                                                         *)
(* A Python str is a sequence of one-character strings.  A Python number   *)
(* is an integer count of 1/Scale units, so that floats with up to four    *)
(* decimal digits are exact; int and float values carry their type.        *)
(***************************************************************************)
EXTENDS Integers, Sequences, FiniteSets, TLC

VARIABLES today, src, tid, out, fs, saved, session, ops, procs, components

vars ==
  <<today, src, tid, out, fs, saved, session, ops, procs, components>>

(***************************************************************************)
(* Bounds of the model.                                                    *)
(***************************************************************************)
\* largest number of underscore-separated tokens of a hand-made test ID
MaxTok == 15
\* largest number of store operations in one behaviour of the store
MaxOps == 2

\* number of model units in 1.0: four decimal digits
Scale == 10 * 10 * 10 * 10

(***************************************************************************)
(* Characters and Python str primitives.                                   *)
(***************************************************************************)
Digits == <<"0", "1", "2", "3", "4", "5", "6", "7", "8", "9">>

DigitSet == {Digits[i] : i \in 1..10}

Letters ==
  {"a", "b", "c", "d", "e", "f", "g", "h", "i", "j", "k", "l", "m", "n", "o",
   "p", "q", "r", "s", "t", "u", "v", "w", "x", "y", "z", "A", "B", "C", "D",
   "E", "F", "G", "H", "I", "J", "K", "L", "M", "N", "O", "P", "Q", "R", "S",
   "T", "U", "V", "W", "X", "Y", "Z"}

\* the NUL character, written "NUL" as one element of a str
NulChar == "NUL"

\* regular expression class \w
IsWord(c) == c \in Letters \cup DigitSet \cup {"_"}

\* regular expression class \s
IsSpace(c) == c \in {" ", "TAB"}

DigitVal(c) == CHOOSE d \in 0..9 : Digits[d + 1] = c

IsDigits(s) == Len(s) > 0 /\ \A i \in 1..Len(s) : s[i] \in DigitSet

RECURSIVE DigitsVal(_)
DigitsVal(s) ==
  IF s = <<>> THEN 0
  ELSE 10 * DigitsVal(SubSeq(s, 1, Len(s) - 1)) + DigitVal(s[Len(s)])

RECURSIVE NatStr(_)
\* str(n) for n >= 0
NatStr(n) ==
  IF n < 10 THEN <<Digits[n + 1]>>
  ELSE NatStr(n \div 10) \o <<Digits[(n % 10) + 1]>>

\* str(n) for an int n
IntStr(n) == IF n < 0 THEN <<"-">> \o NatStr(0 - n) ELSE NatStr(n)

StartsWith(s, p) == Len(s) >= Len(p) /\ SubSeq(s, 1, Len(p)) = p

EndsWith(s, p) ==
  Len(s) >= Len(p) /\ SubSeq(s, Len(s) - Len(p) + 1, Len(s)) = p

\* s[:-k]
DropLast(s, k) == SubSeq(s, 1, Len(s) - k)

RECURSIVE RStrip(_, _)
\* s.rstrip(chars): chars is a SET of characters, not a suffix
RStrip(s, chars) ==
  IF s # <<>> /\ s[Len(s)] \in chars THEN RStrip(DropLast(s, 1), chars) ELSE s

RECURSIVE LStrip(_, _)
LStrip(s, chars) ==
  IF s # <<>> /\ s[1] \in chars THEN LStrip(Tail(s), chars) ELSE s

Strip(s) == LStrip(RStrip(s, {" ", "TAB"}), {" ", "TAB"})

\* the places of s, in order
Indices(s) == [i \in 1..Len(s) |-> i]

\* the places at which the separator occurs in s, in order
Occurrences(s, sep) ==
  SelectSeq(Indices(s),
            LAMBDA i : /\ i + Len(sep) - 1 <= Len(s)
                       /\ SubSeq(s, i, i + Len(sep) - 1) = sep)

RECURSIVE Matched(_, _, _, _)
\* the occurrences from the k-th on that s.split takes as separators: the
\* separator is matched left to right, without overlap, so an occurrence
\* counts when it starts at or after the place from which s is still free
Matched(occ, len, k, free) ==
  IF k > Len(occ) THEN <<>>
  ELSE IF occ[k] >= free
       THEN <<occ[k]>> \o Matched(occ, len, k + 1, occ[k] + len)
       ELSE Matched(occ, len, k + 1, free)

\* the pieces of s between the separators of length len at the places m
Pieces(s, len, m) ==
  [j \in 1..(Len(m) + 1) |->
     SubSeq(s, IF j = 1 THEN 1 ELSE m[j - 1] + len,
            IF j = Len(m) + 1 THEN Len(s) ELSE m[j] - 1)]

\* s.split(sep)
Split(s, sep) ==
  Pieces(s, Len(sep), Matched(Occurrences(s, sep), Len(sep), 1, 1))

RECURSIVE Join(_, _)
\* sep.join(parts)
Join(parts, sep) ==
  IF parts = <<>> THEN <<>>
  ELSE IF Len(parts) = 1 THEN parts[1]
       ELSE parts[1] \o sep \o Join(Tail(parts), sep)

\* position of the first "." of s, 0 when there is none
DotPos(s) ==
  IF \E i \in 1..Len(s) : s[i] = "."
  THEN CHOOSE i \in 1..Len(s) : s[i] = "." /\ \A j \in 1..(i - 1) : s[j] # "."
  ELSE 0

(***************************************************************************)
(* Python numbers.                                                         *)
(***************************************************************************)
Abs(n) == IF n < 0 THEN 0 - n ELSE n

\* int(x) of a float x: truncation toward zero, as a plain integer
Trunc(x) == IF x < 0 THEN 0 - ((0 - x) \div Scale) ELSE x \div Scale

\* 10^k for k in 0..4
Pow10(k) == CASE k = 0 -> 1 [] k = 1 -> 10 [] k = 2 -> 100 [] k = 3 -> 1000
              [] OTHER -> 10000

\* a run of k zero digits
Zeros(k) == [i \in 1..k |-> "0"]

\* f"{x:.3f}": x rounded to the nearest thousandth, three decimal digits.
\* The inputs drawn below never lie half way between two thousandths.
Format3(x) ==
  LET milli == (Abs(x) + (Scale \div 2000)) \div (Scale \div 1000)
      frac == NatStr(milli % 1000)
  IN (IF x < 0 THEN <<"-">> ELSE <<>>) \o NatStr(milli \div 1000) \o <<".">>
       \o Zeros(3 - Len(frac)) \o frac

\* the result of a failed conversion
NoNum == [ok |-> FALSE, n |-> 0]

\* the digits [. digits] body of a numeric literal, without sign
ParseUnsigned(s) ==
  LET d == DotPos(s)
      ip == IF d = 0 THEN s ELSE SubSeq(s, 1, d - 1)
      fp == IF d = 0 THEN <<>> ELSE SubSeq(s, d + 1, Len(s))
  IN IF /\ ip \o fp # <<>>
        /\ \A i \in 1..Len(ip) : ip[i] \in DigitSet
        /\ \A i \in 1..Len(fp) : fp[i] \in DigitSet
        /\ Len(fp) <= 4
     THEN [ok |-> TRUE,
           n |-> DigitsVal(ip) * Scale + DigitsVal(fp) * Pow10(4 - Len(fp))]
     ELSE NoNum

\* float(s): surrounding whitespace, a sign, digits with at most one point.
\* Exponents, underscores, inf and nan are outside the inputs drawn below.
ParseFloat(s) ==
  LET t == Strip(s)
      neg == t # <<>> /\ t[1] = "-"
      u == ParseUnsigned(IF neg THEN Tail(t) ELSE t)
  IN IF u.ok THEN [ok |-> TRUE, n |-> IF neg THEN 0 - u.n ELSE u.n] ELSE NoNum

\* int(s): surrounding whitespace, a sign, digits only
ParseInt(s) ==
  LET t == Strip(s)
      neg == t # <<>> /\ t[1] = "-"
      b == IF neg THEN Tail(t) ELSE t
  IN IF IsDigits(b)
     THEN [ok |-> TRUE,
           n |-> (IF neg THEN 0 - DigitsVal(b) ELSE DigitsVal(b)) * Scale]
     ELSE NoNum

(***************************************************************************)
(* Scalar leaves of a record.                                              *)
(***************************************************************************)
PyStr(s) == [k |-> "str", n |-> 0, s |-> s]

\* the int i
PyInt(i) == [k |-> "int", n |-> i * Scale, s |-> <<>>]

\* the float of x model units
PyFloat(x) == [k |-> "float", n |-> x, s |-> <<>>]

IsNum(v) == v.k \in {"int", "float"}

\* Python ==: numbers compare by value whatever their type
PyEq(a, b) ==
  IF IsNum(a) /\ IsNum(b) THEN a.n = b.n ELSE a.k = b.k /\ a.n = b.n /\ a.s = b.s

(***************************************************************************)
(* Record schema (app.create_empty_test_data).  A record is a function     *)
(* from the dotted path of each leaf it holds to the scalar stored there.  *)
(***************************************************************************)
create_empty_test_data(date) ==
  ("test_id" :> PyStr(<<>>)) @@
  ("date" :> PyStr(date)) @@
  ("distance_m" :> PyInt(100)) @@
  ("platform.calibre" :> PyStr(<<>>)) @@
  ("platform.rifle" :> PyStr(<<>>)) @@
  ("platform.barrel_length_in" :> PyFloat(0)) @@
  ("platform.twist_rate" :> PyStr(<<>>)) @@
  ("ammo.case.brand" :> PyStr(<<>>)) @@
  ("ammo.case.lot" :> PyStr(<<>>)) @@
  ("ammo.case.neck_turned" :> PyStr(<<"N", "o">>)) @@
  ("ammo.case.brass_sizing" :> PyStr(<<"F", "u", "l", "l">>)) @@
  ("ammo.case.bushing_size" :> PyFloat(0)) @@
  ("ammo.case.shoulder_bump" :> PyFloat(0)) @@
  ("ammo.bullet.brand" :> PyStr(<<>>)) @@
  ("ammo.bullet.model" :> PyStr(<<>>)) @@
  ("ammo.bullet.weight_gr" :> PyFloat(0)) @@
  ("ammo.bullet.lot" :> PyStr(<<>>)) @@
  ("ammo.powder.brand" :> PyStr(<<>>)) @@
  ("ammo.powder.model" :> PyStr(<<>>)) @@
  ("ammo.powder.charge_gr" :> PyFloat(0)) @@
  ("ammo.powder.lot" :> PyStr(<<>>)) @@
  ("ammo.primer.brand" :> PyStr(<<>>)) @@
  ("ammo.primer.model" :> PyStr(<<>>)) @@
  ("ammo.primer.lot" :> PyStr(<<>>)) @@
  ("ammo.coal_in" :> PyFloat(0)) @@
  ("ammo.b2o_in" :> PyFloat(0)) @@
  ("environment.temperature_c" :> PyFloat(0)) @@
  ("environment.humidity_percent" :> PyInt(0)) @@
  ("environment.pressure_hpa" :> PyInt(0)) @@
  ("environment.wind_speed_mps" :> PyFloat(0)) @@
  ("environment.wind_dir_deg" :> PyInt(0)) @@
  ("environment.weather" :> PyStr(<<"C", "l", "e", "a", "r">>)) @@
  ("group.group_es_mm" :> PyFloat(0)) @@
  ("group.group_es_moa" :> PyFloat(0)) @@
  ("group.group_es_x_mm" :> PyFloat(0)) @@
  ("group.group_es_y_mm" :> PyFloat(0)) @@
  ("group.mean_radius_mm" :> PyFloat(0)) @@
  ("group.poi_x_mm" :> PyFloat(0)) @@
  ("group.poi_y_mm" :> PyFloat(0)) @@
  ("group.shots" :> PyInt(5)) @@
  ("chrono.avg_velocity_fps" :> PyFloat(0)) @@
  ("chrono.sd_fps" :> PyFloat(0)) @@
  ("chrono.es_fps" :> PyFloat(0)) @@
  ("files.chrono_csv" :>
     PyStr(<<"c", "h", "r", "o", "n", "o", ".", "c", "s", "v">>)) @@
  ("files.target_photo" :>
     PyStr(<<"t", "a", "r", "g", "e", "t", ".", "j", "p", "g">>)) @@
  ("notes" :> PyStr(<<>>))

\* the four leaves of ammo.case that editor.create_empty_test_data does not
\* have
EditorAbsent ==
  {"ammo.case.neck_turned", "ammo.case.brass_sizing",
   "ammo.case.bushing_size", "ammo.case.shoulder_bump"}

\* editor.create_empty_test_data: the same literal without these leaves
editor_create_empty_test_data(date) ==
  LET e == create_empty_test_data(date) IN
  [q \in DOMAIN e \ EditorAbsent |-> e[q]]

\* data[path] = value
SetLeaf(data, path, value) == (path :> value) @@ data

\* the mapping {}
EmptyMap == [p \in {} |-> PyStr(<<>>)]

(***************************************************************************)
(* Identifier codec: encode (app.generate_test_id).                        *)
(***************************************************************************)
RECURSIVE CollapseSpace(_)
\* re.sub(r'\s+', '-', s): every maximal run of whitespace becomes one hyphen
CollapseSpace(s) ==
  IF s = <<>> THEN <<>>
  ELSE IF IsSpace(s[1])
       THEN <<"-">> \o CollapseSpace(LStrip(s, {" ", "TAB"}))
       ELSE <<s[1]>> \o CollapseSpace(Tail(s))

\* re.sub(r'[^\w\s-]', '', s)
RemoveSpecial(s) == SelectSeq(s, LAMBDA c : IsWord(c) \/ IsSpace(c) \/ c = "-")

\* clean_str without its second substitution
clean_str_no_collapse(s) == RemoveSpecial(s)

clean_str(s) == CollapseSpace(RemoveSpecial(s))

generate_test_id(date, distance_m, calibre, rifle, case_brand, bullet_brand, bullet_model, bullet_weight, powder_brand, powder_model, powder_charge, coal, b2o, primer_brand, primer_model) ==
  date \o <<"_", "_">> \o IntStr(distance_m) \o <<"m", "_">>
    \o clean_str(calibre) \o <<"_">>
    \o clean_str(rifle) \o <<"_">>
    \o clean_str(case_brand) \o <<"_">>
    \o clean_str(bullet_brand) \o <<"_">>
    \o clean_str(bullet_model) \o <<"_">>
    \o IntStr(Trunc(bullet_weight)) \o <<"g", "r", "_">>
    \o clean_str(powder_brand) \o <<"_">>
    \o clean_str(powder_model) \o <<"_">>
    \o IntStr(Trunc(powder_charge)) \o <<"g", "r", "_">>
    \o Format3(coal) \o <<"i", "n", "_">>
    \o Format3(b2o) \o <<"i", "n", "_">>
    \o clean_str(primer_brand) \o <<"_">>
    \o clean_str(primer_model)

\* generate_test_data.generate_test_id, "copied from app.py"
gtd_clean_str(s) == CollapseSpace(RemoveSpecial(s))

gtd_generate_test_id(date, distance_m, calibre, rifle, case_brand, bullet_brand, bullet_model, bullet_weight, powder_brand, powder_model, powder_charge, coal, b2o, primer_brand, primer_model) ==
  date \o <<"_", "_">> \o IntStr(distance_m) \o <<"m", "_">>
    \o gtd_clean_str(calibre) \o <<"_">>
    \o gtd_clean_str(rifle) \o <<"_">>
    \o gtd_clean_str(case_brand) \o <<"_">>
    \o gtd_clean_str(bullet_brand) \o <<"_">>
    \o gtd_clean_str(bullet_model) \o <<"_">>
    \o IntStr(Trunc(bullet_weight)) \o <<"g", "r", "_">>
    \o gtd_clean_str(powder_brand) \o <<"_">>
    \o gtd_clean_str(powder_model) \o <<"_">>
    \o IntStr(Trunc(powder_charge)) \o <<"g", "r", "_">>
    \o Format3(coal) \o <<"i", "n", "_">>
    \o Format3(b2o) \o <<"i", "n", "_">>
    \o gtd_clean_str(primer_brand) \o <<"_">>
    \o gtd_clean_str(primer_model)

\* str(x) of a float x >= 0 of model units: the integer part, a point and
\* the decimal digits without trailing zeros, one digit at least
FloatRepr(x) ==
  LET frac == NatStr(x % Scale)
      digits == RStrip(Zeros(4 - Len(frac)) \o frac, {"0"})
  IN NatStr(x \div Scale) \o <<".">>
       \o (IF digits = <<>> THEN <<"0">> ELSE digits)

\* format(v) of a scalar leaf with an empty format specification
PyText(v) ==
  CASE v.k = "str" -> v.s
    [] v.k = "int" -> IntStr(v.n \div Scale)
    [] OTHER -> FloatRepr(v.n)

\* data["date"].replace('-', '')
RemoveHyphens(d) == Join(Split(d, <<"-">>), <<>>)

\* clean_str of editor.generate_test_id
editor_clean_str(s) == CollapseSpace(RemoveSpecial(s))

\* editor.generate_test_id(data): the date without hyphens and ten tokens,
\* no brand among them
editor_generate_test_id(data) ==
  RemoveHyphens(data["date"].s) \o <<"_", "_">>
    \o PyText(data["distance_m"]) \o <<"m", "_">>
    \o editor_clean_str(PyText(data["platform.calibre"])) \o <<"_">>
    \o editor_clean_str(PyText(data["platform.rifle"])) \o <<"_">>
    \o editor_clean_str(PyText(data["ammo.bullet.model"])) \o <<"_">>
    \o PyText(data["ammo.bullet.weight_gr"]) \o <<"g", "r", "_">>
    \o editor_clean_str(PyText(data["ammo.powder.model"])) \o <<"_">>
    \o PyText(data["ammo.powder.charge_gr"]) \o <<"g", "r", "_">>
    \o Format3(data["ammo.coal_in"].n) \o <<"i", "n", "_">>
    \o Format3(data["ammo.b2o_in"].n) \o <<"i", "n", "_">>
    \o editor_clean_str(PyText(data["ammo.primer.model"]))

(***************************************************************************)
(* Identifier codec: decode (app.parse_test_id, editor.parse_test_id).     *)
(***************************************************************************)
\* the tuple of fourteen empty strings
Empty14 == [i \in 1..14 |-> <<>>]

\* app.parse_test_id, the branch of 14 or more tokens.  The statement
\* data["ammo"]["b2o_in"] = float(b2o) evaluates float(b2o) first: a
\* ValueError is passed over by the inner handler; otherwise the name data,
\* which the function never binds, raises NameError, which the outer
\* handler turns into the tuple of empty strings.
CurrentTuple(date_part, p) ==
  LET b2o == IF EndsWith(p[12], <<"i", "n">>) THEN DropLast(p[12], 2)
             ELSE p[12]
  IN IF ParseFloat(b2o).ok
     THEN Empty14
     ELSE <<date_part, p[1], p[2], p[3], p[4], p[5], p[6], p[7], p[8], p[9],
            p[10], p[11], p[13], p[14]>>

\* the short branch returning the date it has split off
ShortTuple_keep_date(date_part, p) == <<date_part>> \o [i \in 1..13 |-> <<>>]

\* app.parse_test_id, fewer than 9 tokens
ShortTuple(date_part, p) == Empty14

\* the legacy branch reading the primer model one token early
LegacyTuple_primer_early(date_part, p) ==
  <<date_part, p[1], p[2], p[3], <<>>, <<>>, p[4], p[5], <<>>, p[6], p[7],
    p[8], <<>>, p[8]>>

\* app.parse_test_id, the branch of 9 to 13 tokens
LegacyTuple(date_part, p) ==
  <<date_part, p[1], p[2], p[3], <<>>, <<>>, p[4], p[5], <<>>, p[6], p[7],
    p[8], <<>>, p[9]>>

app_parse_test_id(test_id) ==
  LET parts == Split(test_id, <<"_", "_">>) IN
  IF Len(parts) # 2 THEN Empty14
  ELSE
    LET date_part == parts[1]
        p == Split(parts[2], <<"_">>)
    IN IF Len(p) >= 14 THEN CurrentTuple(date_part, p)
       ELSE IF Len(p) < 9 THEN ShortTuple(date_part, p)
            ELSE LegacyTuple(date_part, p)

\* YYYYMMDD as YYYY-MM-DD
HyphenDate(d) ==
  SubSeq(d, 1, 4) \o <<"-">> \o SubSeq(d, 5, 6) \o <<"-">> \o SubSeq(d, 7, 8)

\* data[path] = float(s) inside try/except: the leaf keeps its value when
\* the conversion fails
SetFloat(data, path, s) ==
  IF ParseFloat(s).ok THEN SetLeaf(data, path, PyFloat(ParseFloat(s).n))
  ELSE data

\* data[path] = int(s) inside try/except
SetInt(data, path, s) ==
  IF ParseInt(s).ok THEN SetLeaf(data, path, PyInt(ParseInt(s).n \div Scale))
  ELSE data

\* s[:-len(suffix)] if s.endswith(suffix) else s
CutSuffix(s, suffix) ==
  IF EndsWith(s, suffix) THEN DropLast(s, Len(suffix)) ELSE s

\* editor.parse_test_id: returns a record, filled from ten or more tokens.
\* The unpacking date_part, rest = test_id.split('__') raises ValueError
\* unless the split gives two pieces; the handler then returns the defaults.
editor_parse_test_id(test_id, date) ==
  LET data == SetLeaf(editor_create_empty_test_data(date), "test_id",
                      PyStr(test_id))
      parts == Split(test_id, <<"_", "_">>)
  IN IF Len(parts) # 2 THEN data
     ELSE
       LET date_part == parts[1]
           p == Split(parts[2], <<"_">>)
       IN IF Len(p) < 10 THEN data
          ELSE
            LET d1 == IF Len(date_part) = 8
                      THEN SetLeaf(data, "date", PyStr(HyphenDate(date_part)))
                      ELSE data
                d2 == SetInt(d1, "distance_m", CutSuffix(p[1], <<"m">>))
                d3 == SetLeaf(d2, "platform.calibre", PyStr(p[2]))
                d4 == SetLeaf(d3, "platform.rifle", PyStr(p[3]))
                d5 == SetLeaf(d4, "ammo.bullet.model", PyStr(p[4]))
                d6 == SetFloat(d5, "ammo.bullet.weight_gr",
                               CutSuffix(p[5], <<"g", "r">>))
                d7 == SetLeaf(d6, "ammo.powder.model", PyStr(p[6]))
                d8 == SetFloat(d7, "ammo.powder.charge_gr",
                               CutSuffix(p[7], <<"g", "r">>))
                d9 == SetFloat(d8, "ammo.coal_in",
                               CutSuffix(p[8], <<"i", "n">>))
                d10 == SetFloat(d9, "ammo.b2o_in",
                                CutSuffix(p[9], <<"i", "n">>))
            IN SetLeaf(d10, "ammo.primer.model", PyStr(p[10]))

(***************************************************************************)
(* YAML documents (yaml.dump with the float representer of                 *)
(* utils.save_yaml, yaml.safe_load).  A document maps each leaf path to    *)
(* the scalar node written for it: its text, and whether the text is       *)
(* plain (resolved on load) or quoted (always a str).                      *)
(***************************************************************************)
YamlBoolTrue ==
  {<<"y", "e", "s">>, <<"Y", "e", "s">>, <<"Y", "E", "S">>,
   <<"t", "r", "u", "e">>, <<"T", "r", "u", "e">>, <<"T", "R", "U", "E">>,
   <<"o", "n">>, <<"O", "n">>, <<"O", "N">>}

YamlBoolFalse ==
  {<<"n", "o">>, <<"N", "o">>, <<"N", "O">>,
   <<"f", "a", "l", "s", "e">>, <<"F", "a", "l", "s", "e">>,
   <<"F", "A", "L", "S", "E">>,
   <<"o", "f", "f">>, <<"O", "f", "f">>, <<"O", "F", "F">>}

YamlNull ==
  {<<>>, <<"~">>, <<"n", "u", "l", "l">>, <<"N", "u", "l", "l">>,
   <<"N", "U", "L", "L">>}

RECURSIVE OctVal(_)
OctVal(s) ==
  IF s = <<>> THEN 0
  ELSE 8 * OctVal(SubSeq(s, 1, Len(s) - 1)) + DigitVal(s[Len(s)])

\* the implicit resolver of a plain scalar: the value safe_load constructs
Resolve(text) ==
  LET neg == text # <<>> /\ text[1] = "-"
      b == IF neg THEN Tail(text) ELSE text
      sign == IF neg THEN 0 - 1 ELSE 1
  IN IF text \in YamlNull THEN [k |-> "null", n |-> 0, s |-> <<>>]
     ELSE IF text \in YamlBoolTrue THEN [k |-> "bool", n |-> 1, s |-> <<>>]
     ELSE IF text \in YamlBoolFalse THEN [k |-> "bool", n |-> 0, s |-> <<>>]
     ELSE IF IsDigits(b) /\ (Len(b) = 1 \/ b[1] # "0")
          THEN PyInt(sign * DigitsVal(b))
     ELSE IF IsDigits(b) /\ \A i \in 1..Len(b) : b[i] \notin {"8", "9"}
          THEN PyInt(sign * OctVal(b))
     ELSE IF DotPos(b) # 0 /\ ParseUnsigned(b).ok
          THEN PyFloat(sign * ParseUnsigned(b).n)
     ELSE PyStr(text)

PlainNode(text) == [plain |-> TRUE, text |-> text]

QuotedNode(text) == [plain |-> FALSE, text |-> text]

represent_int(i) == PlainNode(IntStr(i))

\* a str is written plain only when the resolver reads it back as a str
represent_str(text) ==
  IF Resolve(text).k = "str" THEN PlainNode(text) ELSE QuotedNode(text)

\* the representer writing every float as its integer part
represent_float_int_only(data) == represent_int(Trunc(data))

\* utils.save_yaml.represent_float, data in model units
represent_float(data) ==
  IF data = Trunc(data) * Scale THEN represent_int(Trunc(data))
  ELSE
    LET text == Format3(data)
        stripped == RStrip(RStrip(text, {"0"}), {"."})
    IN PlainNode(IF stripped # Split(text, <<".">>)[1] THEN stripped ELSE text)

represent(v) ==
  CASE v.k = "str" -> represent_str(v.s)
    [] v.k = "int" -> represent_int(v.n \div Scale)
    [] v.k = "float" -> represent_float(v.n)
    [] v.k = "bool" ->
         PlainNode(IF v.n = 1 THEN <<"t", "r", "u", "e">>
                   ELSE <<"f", "a", "l", "s", "e">>)
    [] OTHER -> PlainNode(<<"n", "u", "l", "l">>)

construct(node) == IF node.plain THEN Resolve(node.text) ELSE PyStr(node.text)

\* yaml.dump(data, file, default_flow_style=False, sort_keys=False)
yaml_dump(data) ==
  [wf |-> TRUE, nodes |-> [p \in DOMAIN data |-> represent(data[p])]]

\* yaml.safe_load(file) of a well-formed document
yaml_safe_load(doc) == [p \in DOMAIN doc.nodes |-> construct(doc.nodes[p])]

(***************************************************************************)
(* File system under the working directory: whether the directory tests    *)
(* exists and, for each name in it, a directory (with or without its       *)
(* group.yaml) or a regular file.  A path is a sequence of segments.       *)
(***************************************************************************)
TestsSeg == <<"t", "e", "s", "t", "s">>

GroupYaml == <<"g", "r", "o", "u", "p", ".", "y", "a", "m", "l">>

NoDoc == [wf |-> TRUE, nodes |-> EmptyMap]

EmptyFS == [tests |-> FALSE, ent |-> [x \in {} |-> 0]]

DirEntry(has, doc) == [kind |-> "dir", has |-> has, doc |-> doc]

FileEntry(doc) == [kind |-> "file", has |-> TRUE, doc |-> doc]

HasNul(path) ==
  \E i \in 1..Len(path) : \E j \in 1..Len(path[i]) : path[i][j] = NulChar

\* os.path.join("tests", name, ...rest): an empty name adds no segment
JoinTests(name, rest) ==
  IF name = <<>> THEN <<TestsSeg>> \o rest ELSE <<TestsSeg, name>> \o rest

\* os.makedirs(path, exist_ok=True) for tests and tests/name: the parent
\* tests is made before mkdir refuses a name with a NUL character
MakeDirs(f, path) ==
  IF HasNul(path) THEN [fs |-> [f EXCEPT !.tests = TRUE], err |-> "ValueError"]
  ELSE IF Len(path) = 1 THEN [fs |-> [f EXCEPT !.tests = TRUE], err |-> "none"]
  ELSE IF path[2] \in DOMAIN f.ent
       THEN IF f.ent[path[2]].kind = "file"
            THEN [fs |-> f, err |-> "FileExistsError"]
            ELSE [fs |-> f, err |-> "none"]
       ELSE [fs |-> [tests |-> TRUE,
                     ent |-> (path[2] :> DirEntry(FALSE, NoDoc)) @@ f.ent],
             err |-> "none"]

\* open(path, 'r') for tests/name and tests/name/group.yaml
OpenRead(f, path) ==
  IF HasNul(path) THEN [err |-> "ValueError", doc |-> NoDoc]
  ELSE IF path[2] \notin DOMAIN f.ent
       THEN [err |-> "FileNotFoundError", doc |-> NoDoc]
  ELSE IF Len(path) = 2
       THEN IF f.ent[path[2]].kind = "dir"
            THEN [err |-> "IsADirectoryError", doc |-> NoDoc]
            ELSE [err |-> "none", doc |-> f.ent[path[2]].doc]
  ELSE IF f.ent[path[2]].kind = "file"
       THEN [err |-> "NotADirectoryError", doc |-> NoDoc]
  ELSE IF f.ent[path[2]].has
       THEN [err |-> "none", doc |-> f.ent[path[2]].doc]
       ELSE [err |-> "FileNotFoundError", doc |-> NoDoc]

\* open(path, 'w') followed by the write of doc
OpenWrite(f, path, doc) ==
  IF HasNul(path) THEN [fs |-> f, err |-> "ValueError"]
  ELSE IF Len(path) = 2
       THEN IF ~f.tests THEN [fs |-> f, err |-> "FileNotFoundError"]
            ELSE IF path[2] \in DOMAIN f.ent /\ f.ent[path[2]].kind = "dir"
                 THEN [fs |-> f, err |-> "IsADirectoryError"]
                 ELSE [fs |-> [f EXCEPT !.ent = (path[2] :> FileEntry(doc)) @@ @],
                       err |-> "none"]
  ELSE IF path[2] \notin DOMAIN f.ent
       THEN [fs |-> f, err |-> "FileNotFoundError"]
  ELSE IF f.ent[path[2]].kind = "file"
       THEN [fs |-> f, err |-> "NotADirectoryError"]
  ELSE [fs |-> [f EXCEPT !.ent = (path[2] :> DirEntry(TRUE, doc)) @@ @],
        err |-> "none"]

(***************************************************************************)
(* Record store (utils.py).  Every operation returns the error it raises   *)
(* to its caller, "none" when it returns normally.                         *)
(***************************************************************************)
\* only FileNotFoundError is handled; a loaded document that is empty or
\* falsy becomes {}
load_yaml(f, file_path) ==
  LET r == OpenRead(f, file_path) IN
  IF r.err = "FileNotFoundError" THEN [err |-> "none", data |-> EmptyMap]
  ELSE IF r.err # "none" THEN [err |-> r.err, data |-> EmptyMap]
  ELSE IF ~r.doc.wf THEN [err |-> "YAMLError", data |-> EmptyMap]
  ELSE [err |-> "none", data |-> yaml_safe_load(r.doc)]

\* a save that updates the stored mapping with the new leaves
save_yaml_merge(f, file_path, data) ==
  LET m == MakeDirs(f, DropLast(file_path, 1))
      old == load_yaml(f, file_path)
  IN IF m.err # "none" THEN m
     ELSE OpenWrite(m.fs, file_path,
                    yaml_dump(IF old.err = "none" THEN data @@ old.data
                              ELSE data))

save_yaml(f, file_path, data) ==
  LET m == MakeDirs(f, DropLast(file_path, 1)) IN
  IF m.err # "none" THEN m ELSE OpenWrite(m.fs, file_path, yaml_dump(data))

\* utils.get_test_folders: the directory tests is created when missing; the
\* names listed are those of the directories in it
get_test_folders(f) ==
  IF ~f.tests THEN [fs |-> [f EXCEPT !.tests = TRUE], names |-> {}]
  ELSE [fs |-> f, names |-> {x \in DOMAIN f.ent : f.ent[x].kind = "dir"}]

get_test_file_path(test_name) == JoinTests(test_name, <<GroupYaml>>)

create_test_folder(f, test_name) == MakeDirs(f, JoinTests(test_name, <<>>))

get_test_data(f, test_name) == load_yaml(f, get_test_file_path(test_name))

save_test_data(f, test_name, data) ==
  LET c == create_test_folder(f, test_name) IN
  IF c.err # "none" THEN c
  ELSE save_yaml(c.fs, get_test_file_path(test_name), data)

(***************************************************************************)
(* app.load_test_data: the stored record, or the defaults filled from the  *)
(* decoded test ID when nothing is stored under it.                        *)
(***************************************************************************)
\* the defaults filled from the tuple t decoded from the test ID
FillFromId(test_id, date, t) ==
  LET d0 == SetLeaf(create_empty_test_data(date), "test_id",
                    PyStr(test_id))
      d1 == IF t[1] # <<>> /\ Len(t[1]) = 8
            THEN SetLeaf(d0, "date", PyStr(HyphenDate(t[1]))) ELSE d0
      d2 == IF t[2] # <<>>
            THEN SetInt(d1, "distance_m", RStrip(t[2], {"m"})) ELSE d1
      d3 == SetLeaf(d2, "platform.calibre", PyStr(t[3]))
      d4 == SetLeaf(d3, "platform.rifle", PyStr(t[4]))
      d5 == SetLeaf(d4, "ammo.case.brand", PyStr(t[5]))
      d6 == SetLeaf(d5, "ammo.bullet.brand", PyStr(t[6]))
      d7 == SetLeaf(d6, "ammo.bullet.model", PyStr(t[7]))
      d8 == SetFloat(d7, "ammo.bullet.weight_gr", RStrip(t[8], {"g", "r"}))
      d9 == SetLeaf(d8, "ammo.powder.brand", PyStr(t[9]))
      d10 == SetLeaf(d9, "ammo.powder.model", PyStr(t[10]))
      d11 == SetFloat(d10, "ammo.powder.charge_gr",
                      RStrip(t[11], {"g", "r"}))
      d12 == SetFloat(d11, "ammo.coal_in", RStrip(t[12], {"i", "n"}))
      d13 == SetLeaf(d12, "ammo.primer.brand", PyStr(t[13]))
  IN [err |-> "none",
      data |-> SetLeaf(d13, "ammo.primer.model", PyStr(t[14]))]

load_test_data(f, test_id, date) ==
  IF test_id = <<>>
  THEN [err |-> "none", data |-> create_empty_test_data(date)]
  ELSE
    LET g == get_test_data(f, test_id) IN
    IF g.err # "none" THEN g
    ELSE IF DOMAIN g.data # {} THEN g
    ELSE FillFromId(test_id, date, app_parse_test_id(test_id))

(***************************************************************************)
(* Inputs of the codec.                                                    *)
(***************************************************************************)
\* the fields of section 8's encoding example
Example ==
  [date |-> <<"2", "0", "2", "5", "-", "0", "6", "-", "0", "1">>,
   distance_m |-> 100,
   calibre |-> <<"2", "2", "3", " ", "R", "e", "m">>,
   rifle |-> <<"T", "i", "k", "k", "a", " ", "T", "3", "x">>,
   case_brand |-> <<"L", "a", "p", "u", "a">>,
   bullet_brand |-> <<"H", "o", "r", "n", "a", "d", "y">>,
   bullet_model |-> <<"E", "L", "D", "-", "M">>,
   bullet_weight |-> 750000,
   powder_brand |-> <<"A", "D", "I">>,
   powder_model |-> <<"2", "2", "0", "8">>,
   powder_charge |-> 235000,
   coal |-> 22600,
   b2o |-> 18000,
   primer_brand |-> <<"C", "C", "I">>,
   primer_model |-> <<"B", "R", "4">>]

\* the names of the nine free-text fields, in template order
TextFields ==
  <<"calibre", "rifle", "case_brand", "bullet_brand", "bullet_model",
    "powder_brand", "powder_model", "primer_brand", "primer_model">>

\* the example with hyphens for its spaces: cleaning leaves it as it is
CleanExample ==
  [Example EXCEPT !.calibre = <<"2", "2", "3", "-", "R", "e", "m">>,
                  !.rifle = <<"T", "i", "k", "k", "a", "-", "T", "3", "x">>]

\* free-text values put into one field at a time
TextVals ==
  {<<"X", "y">>, <<>>, <<"A", "_", "B">>, <<"A", " ", "B">>,
   <<"A", "!", "B">>, <<"A", "B", "_">>, <<" ", "A", " ", " ", "B">>,
   <<"!">>}

\* distance, bullet weight, powder charge, COAL, B2O
NumVals ==
  {<<100, 750000, 235000, 22600, 18000>>,
   <<0, 5000, 230000, 22604, 0>>,
   <<50, 759000, 9999, 4, 18006>>,
   <<1000, 1680000, 435000, 28000, 22000>>}

DateVals ==
  {<<"2", "0", "2", "5", "-", "0", "6", "-", "0", "1">>,
   <<"2", "0", "2", "6", "-", "1", "1", "-", "0", "4">>}

WithNums(f, nv) ==
  [f EXCEPT !.distance_m = nv[1], !.bullet_weight = nv[2],
            !.powder_charge = nv[3], !.coal = nv[4], !.b2o = nv[5]]

FieldInputs ==
  {[WithNums(b, nv) EXCEPT ![TextFields[i]] = v, !.date = d] :
     b \in {CleanExample}, nv \in NumVals, i \in 1..9, v \in TextVals,
     d \in DateVals}
  \cup {WithNums(b, nv) : b \in {Example, CleanExample}, nv \in NumVals}

\* tokens of a hand-made test ID of n tokens: the current layout from 14
\* tokens on, the legacy layout below
CanonTok(n, i) ==
  LET cur == << <<"1", "0", "0", "m">>, <<"2", "2", "3">>, <<"T", "3", "x">>,
                <<"L", "a", "p", "u", "a">>, <<"H", "d", "y">>,
                <<"E", "L", "D", "-", "M">>, <<"7", "5", "g", "r">>,
                <<"A", "D", "I">>, <<"2", "2", "0", "8">>,
                <<"2", "3", "g", "r">>, <<"2", ".", "2", "6", "0", "i", "n">>,
                <<"1", ".", "8", "0", "0", "i", "n">>, <<"C", "C", "I">>,
                <<"B", "R", "4">> >>
      leg == << <<"1", "0", "0", "m">>, <<"2", "2", "3">>, <<"T", "3", "x">>,
                <<"E", "L", "D", "-", "M">>, <<"7", "5", "g", "r">>,
                <<"2", "2", "0", "8">>, <<"2", "3", "g", "r">>,
                <<"2", ".", "2", "6", "0", "i", "n">>, <<"B", "R", "4">> >>
  IN IF n >= 14 THEN (IF i <= 14 THEN cur[i] ELSE <<"e">>)
     ELSE (IF i <= 9 THEN leg[i] ELSE <<"e">>)

\* tokens put at one position of a hand-made test ID
TokVals ==
  {<<"7", "5">>, <<"X", "y">>, <<"7", ".", "5", "g", "r">>,
   <<"1", "2", "m", "m">>, <<"-", "5", "m">>, <<"i", "n">>, <<>>,
   <<"a", NulChar, "b">>}

RawDates ==
  {<<"2", "0", "2", "5", "0", "6", "0", "1">>,
   <<"2", "0", "2", "5", "-", "0", "6", "-", "0", "1">>, <<>>}

\* one double underscore, none, or a second one after the tokens
SepKinds == {"one", "none", "two"}

RawToks(r) == [i \in 1..r.n |-> IF i = r.pos THEN r.tok ELSE CanonTok(r.n, i)]

RawId(r) ==
  CASE r.sep = "one" -> r.date \o <<"_", "_">> \o Join(RawToks(r), <<"_">>)
    [] r.sep = "none" -> r.date \o <<"_">> \o Join(RawToks(r), <<"_">>)
    [] OTHER -> r.date \o <<"_", "_">> \o Join(RawToks(r), <<"_">>)
                  \o <<"_", "_", "z">>

RawInputs ==
  {[date |-> d, n |-> n, pos |-> ps, tok |-> t, sep |-> "one"] :
     d \in RawDates, n \in 1..MaxTok, ps \in 1..MaxTok, t \in TokVals}
  \cup {[date |-> d, n |-> n, pos |-> 0, tok |-> <<>>, sep |-> sp] :
          d \in RawDates, n \in 1..MaxTok, sp \in SepKinds}

NoRaw == [date |-> <<>>, n |-> 0, pos |-> 0, tok |-> <<>>, sep |-> "none"]

\* what the last operation gave: its name, its key, the error it raised,
\* the record, tuple or rows it returned, the keys it printed and, for
\* a save, the leaves of the record saved under the key before
NoOut ==
  [op |-> "none", key |-> <<>>, err |-> "none", data |-> EmptyMap,
   tuple |-> <<>>, rows |-> <<>>, log |-> <<>>, prior |-> {}]

NoSaved == [x \in {} |-> EmptyMap]

\* no process is saving or loading
NoProcs == <<>>

\* no Component_List.yaml in the working directory
NoComponents == [exists |-> FALSE, lists |-> [c \in {} |-> <<>>]]

\* the field tuples a record of the editor is made of
EditorInputs ==
  {WithNums(b, nv) : b \in {Example, CleanExample}, nv \in NumVals}

\* a record of the editor holding the fields
EditorRecord(date, f) ==
  [editor_create_empty_test_data(date) EXCEPT
     !["date"] = PyStr(f.date),
     !["distance_m"] = PyInt(f.distance_m),
     !["platform.calibre"] = PyStr(f.calibre),
     !["platform.rifle"] = PyStr(f.rifle),
     !["ammo.case.brand"] = PyStr(f.case_brand),
     !["ammo.bullet.brand"] = PyStr(f.bullet_brand),
     !["ammo.bullet.model"] = PyStr(f.bullet_model),
     !["ammo.bullet.weight_gr"] = PyFloat(f.bullet_weight),
     !["ammo.powder.brand"] = PyStr(f.powder_brand),
     !["ammo.powder.model"] = PyStr(f.powder_model),
     !["ammo.powder.charge_gr"] = PyFloat(f.powder_charge),
     !["ammo.coal_in"] = PyFloat(f.coal),
     !["ammo.b2o_in"] = PyFloat(f.b2o),
     !["ammo.primer.brand"] = PyStr(f.primer_brand),
     !["ammo.primer.model"] = PyStr(f.primer_model)]

(***************************************************************************)
(* The codec as a state machine: an input is drawn, the encoders build the *)
(* test ID of a field tuple, the decoders read the test ID.                *)
(***************************************************************************)
InitCodec ==
  /\ today \in DateVals
  /\ src \in {[kind |-> "fields", f |-> f, r |-> NoRaw] : f \in FieldInputs}
        \cup {[kind |-> "editor", f |-> f, r |-> NoRaw] : f \in EditorInputs}
        \cup {[kind |-> "raw", f |-> Example, r |-> r] :
                r \in {x \in RawInputs : x.pos <= x.n}}
  /\ tid = IF src.kind = "raw" THEN RawId(src.r) ELSE <<>>
  /\ out = NoOut
  /\ fs = EmptyFS
  /\ saved = NoSaved
  /\ session = <<>>
  /\ ops = 0
  /\ procs = NoProcs
  /\ components = NoComponents

EncodeOf(f) ==
  generate_test_id(f.date, f.distance_m, f.calibre, f.rifle, f.case_brand,
                   f.bullet_brand, f.bullet_model, f.bullet_weight,
                   f.powder_brand, f.powder_model, f.powder_charge, f.coal,
                   f.b2o, f.primer_brand, f.primer_model)

GtdEncodeOf(f) ==
  gtd_generate_test_id(f.date, f.distance_m, f.calibre, f.rifle,
                       f.case_brand, f.bullet_brand, f.bullet_model,
                       f.bullet_weight, f.powder_brand, f.powder_model,
                       f.powder_charge, f.coal, f.b2o, f.primer_brand,
                       f.primer_model)

\* app.generate_test_id on the drawn fields
Encode ==
  /\ src.kind = "fields" /\ out.op = "none"
  /\ tid' = EncodeOf(src.f)
  /\ out' = [NoOut EXCEPT !.op = "generate_test_id", !.key = tid']
  /\ UNCHANGED <<procs, components, today, src, fs, saved, session, ops>>

\* generate_test_data.generate_test_id on the drawn fields
GtdEncode ==
  /\ src.kind = "fields" /\ out.op = "none"
  /\ tid' = GtdEncodeOf(src.f)
  /\ out' = [NoOut EXCEPT !.op = "gtd_generate_test_id", !.key = tid']
  /\ UNCHANGED <<procs, components, today, src, fs, saved, session, ops>>

\* editor.generate_test_id on a record holding the drawn fields
EditorEncode ==
  /\ src.kind = "editor" /\ out.op = "none"
  /\ tid' = editor_generate_test_id(EditorRecord(today, src.f))
  /\ out' = [NoOut EXCEPT !.op = "editor.generate_test_id", !.key = tid']
  /\ UNCHANGED <<procs, components, today, src, fs, saved, session, ops>>

\* a test ID is at hand and has not been decoded yet
HaveId ==
  \/ src.kind = "raw" /\ out.op = "none"
  \/ out.op \in {"generate_test_id", "gtd_generate_test_id",
                 "editor.generate_test_id"}

\* app.load_test_data on the test ID
DecodeLoad ==
  /\ HaveId
  /\ LET r == load_test_data(fs, tid, today)
     IN out' = [NoOut EXCEPT !.op = "load_test_data", !.key = tid,
                             !.err = r.err, !.data = r.data]
  /\ UNCHANGED <<procs, components, today, src, tid, fs, saved, session, ops>>

\* app.parse_test_id on the test ID
DecodeApp ==
  /\ HaveId
  /\ out' = [NoOut EXCEPT !.op = "app.parse_test_id", !.key = tid,
                          !.tuple = app_parse_test_id(tid)]
  /\ UNCHANGED <<procs, components, today, src, tid, fs, saved, session, ops>>

\* editor.parse_test_id on the test ID
DecodeEditor ==
  /\ HaveId
  /\ out' = [NoOut EXCEPT !.op = "editor.parse_test_id", !.key = tid,
                          !.data = editor_parse_test_id(tid, today)]
  /\ UNCHANGED <<procs, components, today, src, tid, fs, saved, session, ops>>

NextCodec ==
  \/ Encode \/ GtdEncode \/ EditorEncode
  \/ DecodeLoad \/ DecodeApp \/ DecodeEditor

SpecCodec == InitCodec /\ [][NextCodec]_vars

(***************************************************************************)
(* The store and the three save paths of the applications as a state      *)
(* machine.                                                                *)
(***************************************************************************)
\* the keys the operations are called with: the empty key, two plain
\* names, the name group.yaml, a name holding a NUL character
KeyVals ==
  {<<>>, <<"k", "1">>, <<"k", "2">>, GroupYaml, <<"a", NulChar>>}

\* float leaves, in model units: 1.0, 1.5, 1.0004, 0.1234
StoreFloats == {10000, 15000, 10004, 1234}

StoreToday == <<"2", "0", "2", "6", "-", "1", "1", "-", "0", "4">>

\* the leaves the form of app.main sets when they are absent
FormBackfilled ==
  {"ammo.case.brass_sizing", "ammo.case.shoulder_bump",
   "ammo.case.bushing_size", "ammo.case.neck_turned", "ammo.b2o_in"}

\* a record of three leaves
Small(x, i, t) ==
  ("ammo.coal_in" :> PyFloat(x)) @@ ("group.shots" :> PyInt(i)) @@
  ("notes" :> PyStr(t))

\* the records utils.save_test_data is called with; the last one is the
\* empty record of a version of the schema without the later leaves
RecordVals ==
  {Small(x, 5, <<>>) : x \in StoreFloats}
  \cup {Small(15000, 2, t) : t \in {<<"N", "o">>, <<"1", ".", "5">>, <<"x">>}}
  \cup {EmptyMap, create_empty_test_data(StoreToday)}
  \cup {[q \in DOMAIN create_empty_test_data(StoreToday) \ FormBackfilled |->
           create_empty_test_data(StoreToday)[q]]}

\* what the user changes in a form: COAL and the notes
FormVals ==
  {[coal |-> x, notes |-> t, date |-> StoreToday, distance_m |-> 100] :
     x \in {22600, 10004}, t \in {<<>>, <<"x">>}}

\* the field tuples of the Generate Test ID flow
GenFields == {Example, [Example EXCEPT !.powder_charge = 239000]}

\* the top-level key of a leaf path
TopKey(path) ==
  CASE path \in {"platform.calibre", "platform.rifle",
                 "platform.barrel_length_in", "platform.twist_rate"} ->
         "platform"
    [] path \in {"environment.temperature_c", "environment.humidity_percent",
                 "environment.pressure_hpa", "environment.wind_speed_mps",
                 "environment.wind_dir_deg", "environment.weather"} ->
         "environment"
    [] path \in {"group.group_es_mm", "group.group_es_moa",
                 "group.group_es_x_mm", "group.group_es_y_mm",
                 "group.mean_radius_mm", "group.poi_x_mm", "group.poi_y_mm",
                 "group.shots"} -> "group"
    [] path \in {"chrono.avg_velocity_fps", "chrono.sd_fps",
                 "chrono.es_fps"} -> "chrono"
    [] path \in {"files.chrono_csv", "files.target_photo"} -> "files"
    [] path \in {"test_id", "date", "distance_m", "notes"} -> path
    [] OTHER -> "ammo"

\* test_data.update(saved_data): every top-level key of saved_data replaces
\* the whole value test_data has under it
DictUpdate(test_data, saved_data) ==
  LET tops == {TopKey(q) : q \in DOMAIN saved_data}
      kept == {q \in DOMAIN test_data : TopKey(q) \notin tops}
  IN [q \in kept \cup DOMAIN saved_data |->
        IF q \in DOMAIN saved_data THEN saved_data[q] ELSE test_data[q]]

\* the "if ... not in test_data" statements of the form: brass_sizing
\* "Full", shoulder_bump 0.0, bushing_size 0.0, neck_turned "No", b2o_in 0.0
Backfill(test_data) ==
  [q \in DOMAIN test_data \cup FormBackfilled |->
     IF q \in DOMAIN test_data THEN test_data[q]
     ELSE create_empty_test_data(StoreToday)[q]]

\* the form reads every other leaf of the schema: a missing one is a KeyError
FormReadable(test_data) ==
  (DOMAIN create_empty_test_data(StoreToday)) \ FormBackfilled
    \subseteq DOMAIN test_data

\* gen_calibre and ... and gen_bullet_weight > 0 and ... and gen_coal > 0
all_fields_filled(f) ==
  /\ \A i \in 1..9 : f[TextFields[i]] # <<>>
  /\ f.bullet_weight > 0 /\ f.powder_charge > 0 /\ f.coal > 0

InitStore ==
  /\ today = StoreToday
  /\ src = [kind |-> "store", f |-> Example, r |-> NoRaw]
  /\ tid = <<>>
  /\ out = NoOut
  /\ fs = EmptyFS
  /\ saved = NoSaved
  /\ session = <<>>
  /\ ops = 0
  /\ procs = NoProcs
  /\ components = NoComponents

\* the record kept for a key whose save returned normally
Remember(key, data, err) ==
  IF err = "none" THEN (key :> data) @@ saved ELSE saved

\* utils.save_test_data(test_name, data)
SaveTestData ==
  /\ ops < MaxOps
  /\ \E key \in KeyVals, data \in RecordVals :
       LET r == save_test_data(fs, key, data) IN
       /\ fs' = r.fs
       /\ saved' = Remember(key, data, r.err)
       /\ out' = [NoOut EXCEPT !.op = "save_test_data", !.key = key,
                               !.err = r.err, !.data = data,
                               !.prior = IF key \in DOMAIN saved
                                         THEN DOMAIN saved[key] ELSE {}]
  /\ ops' = ops + 1
  /\ UNCHANGED <<procs, components, today, src, tid, session>>

\* utils.get_test_data(test_name)
GetTestData ==
  /\ ops < MaxOps
  /\ \E key \in KeyVals :
       LET r == get_test_data(fs, key) IN
       out' = [NoOut EXCEPT !.op = "get_test_data", !.key = key,
                            !.err = r.err, !.data = r.data]
  /\ ops' = ops + 1
  /\ UNCHANGED <<procs, components, today, src, tid, fs, saved, session>>

\* the orders in which os.listdir may give the names
Orders(names) ==
  {o \in [1..Cardinality(names) -> names] :
     \A x \in names : \E i \in 1..Cardinality(names) : o[i] = x}

\* utils.get_test_folders(), as every run of an application script does
GetTestFolders ==
  /\ ops < MaxOps
  /\ LET r == get_test_folders(fs) IN
     /\ fs' = r.fs
     /\ \E o \in Orders(r.names) :
          out' = [NoOut EXCEPT !.op = "get_test_folders", !.tuple = o]
  /\ ops' = ops + 1
  /\ UNCHANGED <<procs, components, today, src, tid, saved, session>>

(***************************************************************************)
(* Component lists (Component_List.yaml): each category holds a list of    *)
(* values; the file holds the YAML node written for each value.            *)
(***************************************************************************)
\* default_lists of utils.load_component_lists
default_lists ==
  ("calibre" :>
     <<PyStr(<<"2", "2", "3">>), PyStr(<<"3", "0", "8">>), PyStr(<<"6", ".", "5", "C", "M">>)>>) @@
  ("rifle" :>
     <<PyStr(<<"T", "i", "k", "k", "a", " ", "T", "3", "X">>)>>) @@
  ("case_brand" :>
     <<PyStr(<<"H", "o", "r", "n", "a", "d", "y">>), PyStr(<<"S", "a", "k", "o">>), PyStr(<<"L", "a", "p", "u", "a">>)>>) @@
  ("powder_brand" :>
     <<PyStr(<<"A", "D", "I">>)>>) @@
  ("powder_model" :>
     <<PyStr(<<"2", "2", "0", "8">>), PyStr(<<"2", "2", "0", "6", "H">>)>>) @@
  ("bullet_brand" :>
     <<PyStr(<<"H", "o", "r", "n", "a", "d", "y">>), PyStr(<<"B", "e", "r", "g", "e", "r">>)>>) @@
  ("bullet_model" :>
     <<PyStr(<<"E", "L", "D", "-", "M">>)>>) @@
  ("primer_brand" :>
     <<PyStr(<<"C", "C", "I">>), PyStr(<<"R", "W", "S">>)>>) @@
  ("primer_model" :>
     <<PyStr(<<"B", "R", "-", "4">>), PyStr(<<"4", "0", "3", "3">>)>>)

\* utils.save_component_lists(component_lists): the file after the dump
save_component_lists(component_lists) ==
  [exists |-> TRUE,
   lists |-> [c \in DOMAIN component_lists |->
                [i \in 1..Len(component_lists[c]) |->
                   represent(component_lists[c][i])]]]

\* yaml.safe_load of the file, a mapping of lists
LoadLists(c) ==
  [k \in DOMAIN c.lists |->
     [i \in 1..Len(c.lists[k]) |-> construct(c.lists[k][i])]]

\* utils.load_component_lists(): the lists returned and the file left; a
\* missing file is created with the default lists
load_component_lists(c) ==
  IF ~c.exists
  THEN [components |-> save_component_lists(default_lists),
        lists |-> default_lists]
  ELSE [components |-> c, lists |-> LoadLists(c)]

\* generate_test_data.load_component_lists(): a plain open of the file
gtd_load_component_lists(c) ==
  IF ~c.exists THEN [err |-> "FileNotFoundError", lists |-> LoadLists(c)]
  ELSE [err |-> "none", lists |-> LoadLists(c)]

\* the handler of Generate Test ID without its statement
\* test_data["test_id"] = new_test_id
generated_test_data_no_id(e, new_test_id, f) ==
  ("date" :> PyStr(f.date)) @@
  ("distance_m" :> PyInt(f.distance_m)) @@
  ("platform.calibre" :> PyStr(f.calibre)) @@
  ("platform.rifle" :> PyStr(f.rifle)) @@
  ("ammo.case.brand" :> PyStr(f.case_brand)) @@
  ("ammo.bullet.brand" :> PyStr(f.bullet_brand)) @@
  ("ammo.bullet.model" :> PyStr(f.bullet_model)) @@
  ("ammo.bullet.weight_gr" :> PyFloat(f.bullet_weight)) @@
  ("ammo.powder.brand" :> PyStr(f.powder_brand)) @@
  ("ammo.powder.model" :> PyStr(f.powder_model)) @@
  ("ammo.powder.charge_gr" :> PyFloat(f.powder_charge)) @@
  ("ammo.coal_in" :> PyFloat(f.coal)) @@
  ("ammo.primer.brand" :> PyStr(f.primer_brand)) @@
  ("ammo.primer.model" :> PyStr(f.primer_model)) @@ e

\* test_data after the handler of Generate Test ID has put the new ID and
\* the generated fields into the record e
generated_test_data(e, new_test_id, f) ==
  ("test_id" :> PyStr(new_test_id)) @@
  ("date" :> PyStr(f.date)) @@
  ("distance_m" :> PyInt(f.distance_m)) @@
  ("platform.calibre" :> PyStr(f.calibre)) @@
  ("platform.rifle" :> PyStr(f.rifle)) @@
  ("ammo.case.brand" :> PyStr(f.case_brand)) @@
  ("ammo.bullet.brand" :> PyStr(f.bullet_brand)) @@
  ("ammo.bullet.model" :> PyStr(f.bullet_model)) @@
  ("ammo.bullet.weight_gr" :> PyFloat(f.bullet_weight)) @@
  ("ammo.powder.brand" :> PyStr(f.powder_brand)) @@
  ("ammo.powder.model" :> PyStr(f.powder_model)) @@
  ("ammo.powder.charge_gr" :> PyFloat(f.powder_charge)) @@
  ("ammo.coal_in" :> PyFloat(f.coal)) @@
  ("ammo.primer.brand" :> PyStr(f.primer_brand)) @@
  ("ammo.primer.model" :> PyStr(f.primer_model)) @@ e

\* app.main, Generate Test ID pressed with "Create new test" ticked: the
\* button is enabled only when all_fields_filled; the record is the empty
\* record with the generated fields, saved at once under the new ID
GenerateId ==
  /\ ops < MaxOps
  /\ fs.tests
  /\ \E f \in GenFields :
       /\ all_fields_filled(f)
       /\ LET e == create_empty_test_data(today)
              new_test_id == EncodeOf([f EXCEPT !.b2o = e["ammo.b2o_in"].n])
              test_data == generated_test_data(e, new_test_id, f)
              r == save_test_data(fs, new_test_id, test_data)
          IN /\ fs' = r.fs
             /\ saved' = Remember(new_test_id, test_data, r.err)
             /\ session' = new_test_id
             /\ out' = [NoOut EXCEPT !.op = "generate_id", !.key = new_test_id,
                                     !.err = r.err, !.data = test_data]
  /\ components' = load_component_lists(components).components
  /\ ops' = ops + 1
  /\ UNCHANGED <<procs, today, src, tid>>

\* the record of app.main when the form is drawn, from what load_test_data
\* gave (l): the loaded record under the selected test ID, or, with no test
\* selected and an ID generated in this session, the empty record updated
\* with what is stored under that ID
AppLoaded(test_id, l) ==
  IF l.err # "none" THEN l
  ELSE IF test_id # <<>>
       THEN [err |-> "none", data |-> SetLeaf(l.data, "test_id", PyStr(test_id))]
  ELSE IF session # <<>>
       THEN LET g == get_test_data(fs, session)
                d == SetLeaf(l.data, "test_id", PyStr(session))
            IN IF g.err # "none" THEN g
               ELSE [err |-> "none", data |-> DictUpdate(d, g.data)]
  ELSE l

AppTestData(test_id) == AppLoaded(test_id, load_test_data(fs, test_id, today))

\* drawing the form reads the leaves of the record
AppShown(t) ==
  IF t.err = "none" /\ ~FormReadable(t.data)
  THEN [err |-> "KeyError", data |-> t.data] ELSE t

\* the record after the widgets are read back into it
AppEdited(test_data, v) ==
  [Backfill(test_data) EXCEPT !["ammo.coal_in"] = PyFloat(v.coal),
                              !["notes"] = PyStr(v.notes),
                              !["date"] = PyStr(v.date),
                              !["distance_m"] = PyInt(v.distance_m)]

\* the submit handler: an error while drawing the form ends the run, an
\* empty test_id is refused with st.error, anything else is saved
AppSave(test_id, shown, v) ==
  IF shown.err # "none"
  THEN /\ out' = [NoOut EXCEPT !.op = "app_form_submit",
                               !.key = test_id, !.err = shown.err]
       /\ UNCHANGED <<fs, saved>>
  ELSE LET final == AppEdited(shown.data, v)
           r == save_test_data(fs, final["test_id"].s, final)
       IN IF final["test_id"].s = <<>>
          THEN /\ out' = [NoOut EXCEPT !.op = "app_form_submit",
                                       !.key = <<>>, !.err = "rejected"]
               /\ UNCHANGED <<fs, saved>>
          ELSE /\ fs' = r.fs
               /\ saved' = Remember(final["test_id"].s, final, r.err)
               /\ out' = [NoOut EXCEPT !.op = "app_form_submit",
                                       !.key = final["test_id"].s,
                                       !.err = r.err, !.data = final,
                                       !.prior =
                                         IF final["test_id"].s \in DOMAIN saved
                                         THEN DOMAIN saved[final["test_id"].s]
                                         ELSE {}]

\* app.main, Save Test Data pressed: the selected test is one of the listed
\* folders, or none ("Create new test")
AppFormSubmit ==
  /\ ops < MaxOps
  /\ fs.tests
  /\ \E test_id \in {<<>>} \cup get_test_folders(fs).names, v \in FormVals :
       AppSave(test_id, AppShown(AppTestData(test_id)), v)
  /\ components' = load_component_lists(components).components
  /\ ops' = ops + 1
  /\ UNCHANGED <<procs, today, src, tid, session>>

\* editor.create_test_form, Save Test Data pressed on a record with the
\* given test_id
EditorFormSubmit ==
  /\ ops < MaxOps
  /\ \E test_id \in KeyVals, v \in FormVals :
       LET test_data ==
             [editor_create_empty_test_data(today) EXCEPT
                !["test_id"] = PyStr(test_id),
                !["date"] = PyStr(v.date),
                !["ammo.coal_in"] = PyFloat(v.coal),
                !["notes"] = PyStr(v.notes)]
       IN IF test_id = <<>>
          THEN /\ out' = [NoOut EXCEPT !.op = "editor_form_submit",
                                       !.key = <<>>, !.err = "rejected"]
               /\ UNCHANGED <<fs, saved>>
          ELSE LET r == save_test_data(fs, test_id, test_data) IN
               /\ fs' = r.fs
               /\ saved' = Remember(test_id, test_data, r.err)
               /\ out' = [NoOut EXCEPT !.op = "editor_form_submit",
                                       !.key = test_id, !.err = r.err,
                                       !.data = test_data]
  /\ ops' = ops + 1
  /\ UNCHANGED <<procs, components, today, src, tid, session>>

Next ==
  \/ SaveTestData \/ GetTestData \/ GetTestFolders \/ GenerateId
  \/ AppFormSubmit \/ EditorFormSubmit

Spec == InitStore /\ [][Next]_vars

(***************************************************************************)
(* analysis.load_all_test_data: every listed test folder is loaded and a   *)
(* record that is not empty is flattened into one row.                     *)
(***************************************************************************)
\* the columns of flat_data after test_id, in the order of the dict
\* literal: column, leaf read by the chain of .get calls, default of the
\* last .get
FlatColumns ==
  <<<<"date", "date", PyStr(<<>>)>>,
    <<"distance_m", "distance_m", PyInt(0)>>,
    <<"calibre", "platform.calibre", PyStr(<<>>)>>,
    <<"rifle", "platform.rifle", PyStr(<<>>)>>,
    <<"barrel_length_in", "platform.barrel_length_in", PyFloat(0)>>,
    <<"twist_rate", "platform.twist_rate", PyStr(<<>>)>>,
    <<"case_brand", "ammo.case.brand", PyStr(<<>>)>>,
    <<"case_lot", "ammo.case.lot", PyStr(<<>>)>>,
    <<"neck_turned", "ammo.case.neck_turned", PyStr(<<>>)>>,
    <<"brass_sizing", "ammo.case.brass_sizing", PyStr(<<>>)>>,
    <<"bushing_size", "ammo.case.bushing_size", PyFloat(0)>>,
    <<"shoulder_bump", "ammo.case.shoulder_bump", PyFloat(0)>>,
    <<"bullet_brand", "ammo.bullet.brand", PyStr(<<>>)>>,
    <<"bullet_model", "ammo.bullet.model", PyStr(<<>>)>>,
    <<"bullet_weight_gr", "ammo.bullet.weight_gr", PyFloat(0)>>,
    <<"bullet_lot", "ammo.bullet.lot", PyStr(<<>>)>>,
    <<"powder_brand", "ammo.powder.brand", PyStr(<<>>)>>,
    <<"powder_model", "ammo.powder.model", PyStr(<<>>)>>,
    <<"powder_charge_gr", "ammo.powder.charge_gr", PyFloat(0)>>,
    <<"powder_lot", "ammo.powder.lot", PyStr(<<>>)>>,
    <<"primer_brand", "ammo.primer.brand", PyStr(<<>>)>>,
    <<"primer_model", "ammo.primer.model", PyStr(<<>>)>>,
    <<"primer_lot", "ammo.primer.lot", PyStr(<<>>)>>,
    <<"coal_in", "ammo.coal_in", PyFloat(0)>>,
    <<"b2o_in", "ammo.b2o_in", PyFloat(0)>>,
    <<"temperature_c", "environment.temperature_c", PyFloat(0)>>,
    <<"humidity_percent", "environment.humidity_percent", PyInt(0)>>,
    <<"pressure_hpa", "environment.pressure_hpa", PyInt(0)>>,
    <<"wind_speed_mps", "environment.wind_speed_mps", PyFloat(0)>>,
    <<"wind_dir_deg", "environment.wind_dir_deg", PyInt(0)>>,
    <<"weather", "environment.weather", PyStr(<<>>)>>,
    <<"shots", "group.shots", PyInt(0)>>,
    <<"group_es_mm", "group.group_es_mm", PyFloat(0)>>,
    <<"group_es_moa", "group.group_es_moa", PyFloat(0)>>,
    <<"group_es_x_mm", "group.group_es_x_mm", PyFloat(0)>>,
    <<"group_es_y_mm", "group.group_es_y_mm", PyFloat(0)>>,
    <<"mean_radius_mm", "group.mean_radius_mm", PyFloat(0)>>,
    <<"poi_x_mm", "group.poi_x_mm", PyFloat(0)>>,
    <<"poi_y_mm", "group.poi_y_mm", PyFloat(0)>>,
    <<"avg_velocity_fps", "chrono.avg_velocity_fps", PyFloat(0)>>,
    <<"sd_fps", "chrono.sd_fps", PyFloat(0)>>,
    <<"es_fps", "chrono.es_fps", PyFloat(0)>>,
    <<"notes", "notes", PyStr(<<>>)>>>>

\* dict.get(key, default) along the path of a leaf: a section that is
\* absent reads as {} and a leaf that is absent reads as the default
DictGet(data, path, default) ==
  IF path \in DOMAIN data THEN data[path] ELSE default

\* a flattening that copies only the leaves the record holds
Flatten_present_only(test_id, data) ==
  [c \in {"test_id"} \cup
         {FlatColumns[i][1] : i \in {j \in DOMAIN FlatColumns :
                                      FlatColumns[j][2] \in DOMAIN data}} |->
     IF c = "test_id" THEN PyStr(test_id)
     ELSE LET i == CHOOSE j \in DOMAIN FlatColumns : FlatColumns[j][1] = c
          IN data[FlatColumns[i][2]]]

\* the dict literal flat_data of a record that is a mapping of mappings
Flatten(test_id, data) ==
  [c \in {"test_id"} \cup {FlatColumns[i][1] : i \in DOMAIN FlatColumns} |->
     IF c = "test_id" THEN PyStr(test_id)
     ELSE LET i == CHOOSE j \in DOMAIN FlatColumns : FlatColumns[j][1] = c
          IN DictGet(data, FlatColumns[i][2], FlatColumns[i][3])]

\* the loop over test_folders: all_data and the keys printed by the
\* handler of Exception, after the first n folders
RECURSIVE LoadAllLoop(_, _, _)
LoadAllLoop(f, test_folders, n) ==
  IF n = 0 THEN [rows |-> <<>>, log |-> <<>>]
  ELSE LET before == LoadAllLoop(f, test_folders, n - 1)
           test_id == test_folders[n]
           l == get_test_data(f, test_id)
       IN IF l.err # "none"
          THEN [before EXCEPT !.log = Append(@, test_id)]
          ELSE IF l.data # EmptyMap
          THEN [before EXCEPT !.rows = Append(@, Flatten(test_id, l.data))]
          ELSE before

\* a bulk load that puts each new row in front of the earlier ones
load_all_test_data_reversed(f, test_folders) ==
  LoadAllLoop(f, [i \in 1..Len(test_folders) |->
                    test_folders[Len(test_folders) + 1 - i]],
              Len(test_folders))

load_all_test_data(f, test_folders) ==
  LoadAllLoop(f, test_folders, Len(test_folders))

(***************************************************************************)
(* The bulk load as a state machine: records are saved, a stored file is   *)
(* damaged or removed outside the program, single keys and the whole       *)
(* directory are loaded.                                                   *)
(***************************************************************************)
BulkKeys == {<<"k", "1">>, <<"k", "2">>, <<"k", "3">>}

\* the records stored before a bulk load: a partial record of three leaves
\* (no ammo.case.shoulder_bump), the empty record without the section
\* environment, the empty mapping
BulkRecords ==
  {Small(22600, 5, <<"x">>),
   [q \in {p \in DOMAIN create_empty_test_data(StoreToday) :
             TopKey(p) # "environment"} |->
      create_empty_test_data(StoreToday)[q]],
   EmptyMap}

\* utils.save_test_data(test_name, data) before the analysis runs
BulkSave ==
  /\ \E key \in BulkKeys, data \in BulkRecords :
       LET r == save_test_data(fs, key, data) IN
       /\ fs' = r.fs
       /\ saved' = Remember(key, data, r.err)
       /\ out' = [NoOut EXCEPT !.op = "save_test_data", !.key = key,
                               !.err = r.err, !.data = data]
  /\ UNCHANGED <<procs, components, today, src, tid, session, ops>>

\* outside the program the content of a stored group.yaml is replaced by
\* text that is no YAML document
CorruptStored ==
  /\ \E key \in DOMAIN fs.ent :
       /\ fs.ent[key].kind = "dir" /\ fs.ent[key].has /\ fs.ent[key].doc.wf
       /\ fs' = [fs EXCEPT !.ent[key].doc = [wf |-> FALSE, nodes |-> EmptyMap]]
       /\ out' = [NoOut EXCEPT !.op = "corrupt", !.key = key]
  /\ UNCHANGED <<procs, components, today, src, tid, saved, session, ops>>

\* outside the program a stored group.yaml is deleted, its folder stays
RemoveStored ==
  /\ \E key \in DOMAIN fs.ent :
       /\ fs.ent[key].kind = "dir" /\ fs.ent[key].has
       /\ fs' = [fs EXCEPT !.ent[key] = DirEntry(FALSE, NoDoc)]
       /\ out' = [NoOut EXCEPT !.op = "remove", !.key = key]
  /\ UNCHANGED <<procs, components, today, src, tid, saved, session, ops>>

\* utils.get_test_data(test_name) of a listed or an unknown key
BulkGet ==
  /\ \E key \in BulkKeys :
       LET r == get_test_data(fs, key) IN
       out' = [NoOut EXCEPT !.op = "get_test_data", !.key = key,
                            !.err = r.err, !.data = r.data]
  /\ UNCHANGED <<procs, components, today, src, tid, fs, saved, session, ops>>

\* analysis.load_all_test_data(): the folders in the order os.listdir gives
LoadAllTestData ==
  /\ LET r == get_test_folders(fs) IN
     /\ fs' = r.fs
     /\ \E o \in Orders(r.names) :
          LET a == load_all_test_data(r.fs, o) IN
          out' = [NoOut EXCEPT !.op = "load_all_test_data", !.tuple = o,
                               !.rows = a.rows, !.log = a.log]
  /\ UNCHANGED <<procs, components, today, src, tid, saved, session, ops>>

NextBulk ==
  BulkSave \/ CorruptStored \/ RemoveStored \/ BulkGet \/ LoadAllTestData

SpecBulk == InitStore /\ [][NextBulk]_vars

(***************************************************************************)
(* Two processes saving under one key while a third loads it.  The file    *)
(* group.yaml is a text; open(path, 'w') empties it, and the text of       *)
(* yaml.dump, which reaches the file in one write when the stream is       *)
(* flushed at the end of the document, goes to the positions from the      *)
(* start of the file on: what an earlier writer put after them stays.      *)
(* The records of the race hold top-level leaves only, so the text of a    *)
(* record is one line "key: value" for each leaf.                          *)
(***************************************************************************)
NewLine == "NL"

\* the top-level leaves in the order of the dict literal (sort_keys=False)
TopLeafOrder == <<"test_id", "date", "distance_m", "notes">>

KeyText ==
  ("test_id" :> <<"t", "e", "s", "t", "_", "i", "d">>) @@
  ("date" :> <<"d", "a", "t", "e">>) @@
  ("distance_m" :> <<"d", "i", "s", "t", "a", "n", "c", "e", "_", "m">>) @@
  ("notes" :> <<"n", "o", "t", "e", "s">>)

\* a scalar node as written: plain, or between single quotes
NodeText(node) ==
  IF node.plain THEN node.text ELSE <<"'">> \o node.text \o <<"'">>

RECURSIVE EmitLeaves(_, _)
\* the lines of the first n leaves of TopLeafOrder that the mapping holds
EmitLeaves(nodes, n) ==
  IF n = 0 THEN <<>>
  ELSE EmitLeaves(nodes, n - 1) \o
       (IF TopLeafOrder[n] \in DOMAIN nodes
        THEN KeyText[TopLeafOrder[n]] \o <<":", " ">>
               \o NodeText(nodes[TopLeafOrder[n]]) \o <<NewLine>>
        ELSE <<>>)

\* the text yaml.dump writes for a document; the empty mapping is "{}"
EmitText(doc) ==
  IF doc.nodes = EmptyMap THEN <<"{", "}", NewLine>>
  ELSE EmitLeaves(doc.nodes, Len(TopLeafOrder))

\* position of the first ": " of a line, 0 when there is none
ColonPos(line) ==
  IF \E i \in 1..(Len(line) - 1) : line[i] = ":" /\ line[i + 1] = " "
  THEN CHOOSE i \in 1..(Len(line) - 1) :
         /\ line[i] = ":" /\ line[i + 1] = " "
         /\ \A j \in 1..(i - 1) : ~(line[j] = ":" /\ line[j + 1] = " ")
  ELSE 0

\* the line is a block mapping entry at the left margin: a plain key, ": "
\* and a value
IsEntry(line) ==
  /\ ColonPos(line) > 1
  /\ ColonPos(line) + 1 < Len(line)
  /\ \A i \in 1..(ColonPos(line) - 1) : IsWord(line[i])

EntryKey(line) == SubSeq(line, 1, ColonPos(line) - 1)

EntryNode(line) ==
  LET v == SubSeq(line, ColonPos(line) + 2, Len(line)) IN
  IF Len(v) >= 2 /\ v[1] = "'" /\ v[Len(v)] = "'"
  THEN QuotedNode(SubSeq(v, 2, Len(v) - 1)) ELSE PlainNode(v)

\* the leaf a key names; a key that is no leaf of the schema is kept under
\* the one name "other"
KeyLeaf(key) ==
  IF \E q \in DOMAIN KeyText : KeyText[q] = key
  THEN CHOOSE q \in DOMAIN KeyText : KeyText[q] = key ELSE "other"

RECURSIVE ParseEntries(_, _)
\* the mapping of the first n entries: a key met again replaces the earlier
\* value
ParseEntries(lines, n) ==
  IF n = 0 THEN [q \in {} |-> PlainNode(<<>>)]
  ELSE (KeyLeaf(EntryKey(lines[n])) :> EntryNode(lines[n])) @@
       ParseEntries(lines, n - 1)

\* the document yaml.safe_load reads from a text: no line gives None, the
\* single line "{}" the empty mapping, lines that are all entries a
\* mapping; any other text is no document (ScannerError, ParserError)
ParseText(text) ==
  LET lines == SelectSeq(Split(text, <<NewLine>>), LAMBDA l : l # <<>>) IN
  IF lines = <<>> \/ lines = <<<<"{", "}">>>>
  THEN [wf |-> TRUE, nodes |-> EmptyMap, text |-> text]
  ELSE IF \A i \in 1..Len(lines) : IsEntry(lines[i])
       THEN [wf |-> TRUE, nodes |-> ParseEntries(lines, Len(lines)),
             text |-> text]
       ELSE [wf |-> FALSE, nodes |-> EmptyMap, text |-> text]

\* file.write(text) at the start of a file that holds old
WriteAtStart(old, text) == text \o SubSeq(old, Len(text) + 1, Len(old))

RaceKey == <<"k", "1">>

RaceRecords ==
  {("distance_m" :> PyInt(100)) @@ ("notes" :> PyStr(<<"x">>)),
   ("distance_m" :> PyInt(200)) @@ EmptyMap,
   ("notes" :> PyStr(<<"a", "b", "c", "d">>)) @@ EmptyMap,
   ("notes" :> PyStr(<<"x">>)) @@ EmptyMap}

\* a process about to call utils.save_test_data(RaceKey, data)
Writer(data) == [pc |-> "start", data |-> data]

InitRace ==
  /\ today = StoreToday
  /\ src = [kind |-> "race", f |-> Example, r |-> NoRaw]
  /\ tid = <<>>
  /\ out = NoOut
  /\ fs = EmptyFS
  /\ saved = NoSaved
  /\ session = <<>>
  /\ ops = 0
  /\ procs \in {<<Writer(a), Writer(b)>> : a, b \in RaceRecords}
  /\ components = NoComponents

\* save_test_data, first statement: create_test_folder(test_name)
RaceCreateFolder ==
  /\ \E p \in DOMAIN procs :
       /\ procs[p].pc = "start"
       /\ fs' = create_test_folder(fs, RaceKey).fs
       /\ procs' = [procs EXCEPT ![p].pc = "folder"]
  /\ UNCHANGED <<today, src, tid, out, saved, session, ops, components>>

\* save_yaml up to the with statement: os.makedirs of a folder that exists,
\* then open(file_path, 'w'), which creates the file or empties it
RaceOpen ==
  /\ \E p \in DOMAIN procs :
       /\ procs[p].pc = "folder"
       /\ LET m == MakeDirs(fs, DropLast(get_test_file_path(RaceKey), 1)) IN
          fs' = OpenWrite(m.fs, get_test_file_path(RaceKey),
                          ParseText(<<>>)).fs
       /\ procs' = [procs EXCEPT ![p].pc = "opened"]
  /\ UNCHANGED <<today, src, tid, out, saved, session, ops, components>>

\* yaml.dump and the end of the with statement: the text is written from
\* the start of the file and the file is closed; the save has completed
RaceDump ==
  /\ \E p \in DOMAIN procs :
       /\ procs[p].pc = "opened"
       /\ LET old == fs.ent[RaceKey].doc.text
              text == EmitText(yaml_dump(procs[p].data))
          IN fs' = OpenWrite(fs, get_test_file_path(RaceKey),
                             ParseText(WriteAtStart(old, text))).fs
       /\ saved' = Remember(RaceKey, procs[p].data, "none")
       /\ procs' = [procs EXCEPT ![p].pc = "done"]
  /\ UNCHANGED <<today, src, tid, out, session, ops, components>>

\* a third process calls utils.get_test_data(RaceKey)
RaceGet ==
  /\ LET r == get_test_data(fs, RaceKey) IN
     out' = [NoOut EXCEPT !.op = "get_test_data", !.key = RaceKey,
                          !.err = r.err, !.data = r.data]
  /\ UNCHANGED <<today, src, tid, fs, saved, session, ops, procs, components>>

\* a third process calls app.load_test_data(RaceKey)
RaceLoadTestData ==
  /\ LET r == load_test_data(fs, RaceKey, today) IN
     out' = [NoOut EXCEPT !.op = "load_test_data", !.key = RaceKey,
                          !.err = r.err, !.data = r.data]
  /\ UNCHANGED <<today, src, tid, fs, saved, session, ops, procs, components>>

\* a third process calls analysis.load_all_test_data()
RaceLoadAll ==
  /\ LET r == get_test_folders(fs) IN
     /\ fs' = r.fs
     /\ \E o \in Orders(r.names) :
          LET a == load_all_test_data(r.fs, o) IN
          out' = [NoOut EXCEPT !.op = "load_all_test_data", !.tuple = o,
                               !.rows = a.rows, !.log = a.log]
  /\ UNCHANGED <<today, src, tid, saved, session, ops, procs, components>>

NextRace ==
  \/ RaceCreateFolder \/ RaceOpen \/ RaceDump
  \/ RaceGet \/ RaceLoadTestData \/ RaceLoadAll

SpecRace == InitRace /\ [][NextRace]_vars

(***************************************************************************)
(* The application scripts on one working directory: the Generate Test ID  *)
(* flow and the forms of app.main and of the editor, and the generator of  *)
(* random tests (generate_test_data.main).                                 *)
(***************************************************************************)
\* a component file a user keeps: every category the scripts read,
\* brass_sizing included
UserLists ==
  ("calibre" :>
     <<PyStr(<<"2", "2", "3", " ", "R", "e", "m">>), PyStr(<<"3", "0", "8">>)>>) @@
  ("rifle" :>
     <<PyStr(<<"T", "i", "k", "k", "a", " ", "T", "3", "x">>)>>) @@
  ("case_brand" :>
     <<PyStr(<<"L", "a", "p", "u", "a">>)>>) @@
  ("powder_brand" :>
     <<PyStr(<<"A", "D", "I">>)>>) @@
  ("powder_model" :>
     <<PyStr(<<"2", "2", "0", "8">>)>>) @@
  ("bullet_brand" :>
     <<PyStr(<<"H", "o", "r", "n", "a", "d", "y">>)>>) @@
  ("bullet_model" :>
     <<PyStr(<<"E", "L", "D", "-", "M">>)>>) @@
  ("primer_brand" :>
     <<PyStr(<<"C", "C", "I">>)>>) @@
  ("primer_model" :>
     <<PyStr(<<"B", "R", "4">>)>>) @@
  ("brass_sizing" :>
     <<PyStr(<<"F", "u", "l", "l">>)>>)

\* the categories generate_random_test_data subscripts
GtdCategories ==
  {"calibre", "rifle", "case_brand", "brass_sizing", "bullet_brand",
   "bullet_model", "powder_brand", "powder_model", "primer_brand",
   "primer_model"}

\* values random_date_in_2025 can return
GtdDates == {<<"2", "0", "2", "5", "-", "0", "6", "-", "0", "1">>}

\* values random.randint(100, 900) can return
GtdDistances == {100}

\* values round(random.uniform(23.2, 24.1), 1) can return, in model units:
\* 23.2, 23.9, 24.1
GtdCharges == {232000, 239000, 241000}

\* two sentences of weather_notes joined by a space
GtdNotes ==
  <<"C", "o", "o", "l", " ", "m", "o", "r", "n", "i", "n", "g", " ", "w",
    "i", "t", "h", " ", "s", "t", "a", "b", "l", "e", " ", "a", "i", "r",
    " ", "a", "n", "d", " ", "g", "o", "o", "d", " ", "v", "i", "s", "i",
    "b", "i", "l", "i", "t", "y", ".", " ", "C", "o", "o", "l", " ", "m",
    "o", "r", "n", "i", "n", "g", " ", "w", "i", "t", "h", " ", "s", "t",
    "a", "b", "l", "e", " ", "a", "i", "r", " ", "a", "n", "d", " ", "g",
    "o", "o", "d", " ", "v", "i", "s", "i", "b", "i", "l", "i", "t", "y",
    ".">>

\* what generate_random_test_data draws for the fields of the test ID: a
\* value of each list with random.choice, the date, distance and charge;
\* bullet weight, COAL and B2O are fixed (75, 2.412, 1.783)
GtdDraws(lists) ==
  {[date |-> d, distance_m |-> m, calibre |-> lists["calibre"][i1].s,
    rifle |-> lists["rifle"][i2].s,
    case_brand |-> lists["case_brand"][i3].s,
    bullet_brand |-> lists["bullet_brand"][i4].s,
    bullet_model |-> lists["bullet_model"][i5].s,
    bullet_weight |-> 75 * Scale,
    powder_brand |-> lists["powder_brand"][i6].s,
    powder_model |-> lists["powder_model"][i7].s,
    powder_charge |-> c, coal |-> 24120, b2o |-> 17830,
    primer_brand |-> lists["primer_brand"][i8].s,
    primer_model |-> lists["primer_model"][i9].s,
    brass_sizing |-> lists["brass_sizing"][i10].s] :
     d \in GtdDates, m \in GtdDistances, c \in GtdCharges,
     i1 \in DOMAIN lists["calibre"], i2 \in DOMAIN lists["rifle"],
     i3 \in DOMAIN lists["case_brand"], i4 \in DOMAIN lists["bullet_brand"],
     i5 \in DOMAIN lists["bullet_model"], i6 \in DOMAIN lists["powder_brand"],
     i7 \in DOMAIN lists["powder_model"], i8 \in DOMAIN lists["primer_brand"],
     i9 \in DOMAIN lists["primer_model"], i10 \in DOMAIN lists["brass_sizing"]}

\* test_data of generate_random_test_data before the test ID is put in;
\* the leaves drawn at random that are no part of the test ID have one of
\* the values the draw can give
gtd_test_data_no_id(f) ==
  ("test_id" :> PyStr(<<>>)) @@
  ("date" :> PyStr(f.date)) @@
  ("distance_m" :> PyInt(f.distance_m)) @@
  ("platform.calibre" :> PyStr(f.calibre)) @@
  ("platform.rifle" :> PyStr(f.rifle)) @@
  ("platform.barrel_length_in" :> PyFloat(205000)) @@
  ("platform.twist_rate" :> PyStr(<<"1", ":", "8">>)) @@
  ("ammo.case.brand" :> PyStr(f.case_brand)) @@
  ("ammo.case.lot" :> PyStr(<<"L", "O", "T", "-", "1">>)) @@
  ("ammo.case.neck_turned" :> PyStr(<<"Y", "e", "s">>)) @@
  ("ammo.case.brass_sizing" :> PyStr(f.brass_sizing)) @@
  ("ammo.case.bushing_size" :> PyFloat(2450)) @@
  ("ammo.case.shoulder_bump" :> PyFloat(15000)) @@
  ("ammo.bullet.brand" :> PyStr(f.bullet_brand)) @@
  ("ammo.bullet.model" :> PyStr(f.bullet_model)) @@
  ("ammo.bullet.weight_gr" :> PyInt(f.bullet_weight \div Scale)) @@
  ("ammo.bullet.lot" :> PyStr(<<"L", "O", "T", "-", "1">>)) @@
  ("ammo.powder.brand" :> PyStr(f.powder_brand)) @@
  ("ammo.powder.model" :> PyStr(f.powder_model)) @@
  ("ammo.powder.charge_gr" :> PyFloat(f.powder_charge)) @@
  ("ammo.powder.lot" :> PyStr(<<"L", "O", "T", "-", "1">>)) @@
  ("ammo.primer.brand" :> PyStr(f.primer_brand)) @@
  ("ammo.primer.model" :> PyStr(f.primer_model)) @@
  ("ammo.primer.lot" :> PyStr(<<"L", "O", "T", "-", "1">>)) @@
  ("ammo.coal_in" :> PyFloat(f.coal)) @@
  ("ammo.b2o_in" :> PyFloat(f.b2o)) @@
  ("environment.temperature_c" :> PyInt(30)) @@
  ("environment.humidity_percent" :> PyInt(40)) @@
  ("environment.pressure_hpa" :> PyInt(1008)) @@
  ("environment.wind_speed_mps" :> PyInt(2)) @@
  ("environment.wind_dir_deg" :> PyInt(30)) @@
  ("environment.weather" :> PyStr(<<"C", "l", "e", "a", "r">>)) @@
  ("group.group_es_mm" :> PyFloat(105000)) @@
  ("group.group_es_moa" :> PyFloat(2500)) @@
  ("group.group_es_x_mm" :> PyFloat(105000)) @@
  ("group.group_es_y_mm" :> PyFloat(105000)) @@
  ("group.mean_radius_mm" :> PyFloat(105000)) @@
  ("group.poi_x_mm" :> PyFloat(105000)) @@
  ("group.poi_y_mm" :> PyFloat(105000)) @@
  ("group.shots" :> PyInt(8)) @@
  ("chrono.avg_velocity_fps" :> PyFloat(16005000)) @@
  ("chrono.sd_fps" :> PyFloat(55000)) @@
  ("chrono.es_fps" :> PyFloat(105000)) @@
  ("files.chrono_csv" :>
     PyStr(<<"c", "h", "r", "o", "n", "o", ".", "c", "s", "v">>)) @@
  ("files.target_photo" :>
     PyStr(<<"t", "a", "r", "g", "e", "t", ".", "j", "p", "g">>)) @@
  ("notes" :> PyStr(GtdNotes))

\* generate_random_test_data: the record with test_data["test_id"] set to
\* the generated test ID
generate_random_test_data(f) ==
  (("test_id" :> PyStr(GtdEncodeOf(f))) @@ gtd_test_data_no_id(f))

\* one pass of the loop of generate_test_data.main, with the load of the
\* component lists that precedes the loop: a missing file, a missing
\* category or an empty list ends the run with an exception
GenerateTestData ==
  /\ ops < MaxOps
  /\ LET l == gtd_load_component_lists(components) IN
     IF l.err # "none"
     THEN /\ out' = [NoOut EXCEPT !.op = "generate_test_data", !.err = l.err]
          /\ UNCHANGED <<fs, saved>>
     ELSE IF ~(GtdCategories \subseteq DOMAIN l.lists)
     THEN /\ out' = [NoOut EXCEPT !.op = "generate_test_data",
                                  !.err = "KeyError"]
          /\ UNCHANGED <<fs, saved>>
     ELSE IF \E c \in GtdCategories : l.lists[c] = <<>>
     THEN /\ out' = [NoOut EXCEPT !.op = "generate_test_data",
                                  !.err = "IndexError"]
          /\ UNCHANGED <<fs, saved>>
     ELSE \E f \in GtdDraws(l.lists) :
            LET test_data == generate_random_test_data(f)
                test_id == test_data["test_id"].s
                r == save_test_data(fs, test_id, test_data)
            IN /\ fs' = r.fs
               /\ saved' = Remember(test_id, test_data, r.err)
               /\ out' = [NoOut EXCEPT !.op = "generate_test_data",
                                       !.key = test_id, !.err = r.err,
                                       !.data = test_data]
  /\ ops' = ops + 1
  /\ UNCHANGED <<procs, components, today, src, tid, session>>

\* a working directory in which the application has run before: tests
\* exists; the component file is the user's, or is not there yet
InitApp ==
  /\ today = StoreToday
  /\ src = [kind |-> "app", f |-> Example, r |-> NoRaw]
  /\ tid = <<>>
  /\ out = NoOut
  /\ fs = [EmptyFS EXCEPT !.tests = TRUE]
  /\ saved = NoSaved
  /\ session = <<>>
  /\ ops = 0
  /\ procs = NoProcs
  /\ components \in {NoComponents, save_component_lists(UserLists)}

NextApp ==
  \/ GenerateId \/ AppFormSubmit \/ EditorFormSubmit \/ GenerateTestData

SpecApp == InitApp /\ [][NextApp]_vars

(***************************************************************************)
(* The admin page (admin.main): every run loads the component lists; a     *)
(* button pressed in the tab of a category changes the list of the         *)
(* category and saves all the lists.                                       *)
(***************************************************************************)
\* the categories whose tabs the buttons are pressed in: one with default
\* values, one the default lists do not have
AdminTabs == {"primer_brand", "brass_sizing"}

\* what is typed into the text inputs
AdminItems == {<<"C", "C", "I">>, <<"R", "W", "S">>, <<"2", "2", "3">>}

\* component_lists.get(component_key, [])
ItemsOf(lists, component_key) ==
  IF component_key \in DOMAIN lists THEN lists[component_key] ELSE <<>>

\* new_item not in items
NotIn(items, item) == \A i \in 1..Len(items) : ~PyEq(items[i], item)

\* items.remove(item): the list without the first value equal to item
RemoveFirst(items, item) ==
  LET k == CHOOSE i \in 1..Len(items) :
             PyEq(items[i], item) /\ \A j \in 1..(i - 1) : ~PyEq(items[j], item)
  IN SubSeq(items, 1, k - 1) \o SubSeq(items, k + 1, Len(items))

\* component_lists[component_key] = items; utils.save_component_lists
SaveItems(lists, component_key, items) ==
  save_component_lists((component_key :> items) @@ lists)

InitAdmin ==
  /\ today = StoreToday
  /\ src = [kind |-> "admin", f |-> Example, r |-> NoRaw]
  /\ tid = <<>>
  /\ out = NoOut
  /\ fs = EmptyFS
  /\ saved = NoSaved
  /\ session = <<>>
  /\ ops = 0
  /\ procs = NoProcs
  /\ components \in {NoComponents, save_component_lists(UserLists)}

\* Add pressed with a non-empty new item: appended unless the list has it
AdminAdd ==
  /\ ops < MaxOps
  /\ \E component_key \in AdminTabs, new_item \in AdminItems :
       LET l == load_component_lists(components)
           items == ItemsOf(l.lists, component_key)
       IN IF NotIn(items, PyStr(new_item))
          THEN /\ components' =
                    SaveItems(l.lists, component_key,
                              Append(items, PyStr(new_item)))
               /\ out' = [NoOut EXCEPT !.op = "admin_add", !.key = new_item]
          ELSE /\ components' = l.components
               /\ out' = [NoOut EXCEPT !.op = "admin_add", !.key = new_item,
                                       !.err = "warning"]
  /\ ops' = ops + 1
  /\ UNCHANGED <<procs, today, src, tid, fs, saved, session>>

\* Update pressed on item j with its text input changed
AdminUpdate ==
  /\ ops < MaxOps
  /\ \E component_key \in AdminTabs, edited_item \in AdminItems \cup {<<>>} :
       LET l == load_component_lists(components)
           items == ItemsOf(l.lists, component_key)
       IN \E j \in DOMAIN items :
            /\ ~PyEq(PyStr(edited_item), items[j])
            /\ components' =
                 SaveItems(l.lists, component_key,
                           [items EXCEPT ![j] = PyStr(edited_item)])
            /\ out' = [NoOut EXCEPT !.op = "admin_update", !.key = edited_item]
  /\ ops' = ops + 1
  /\ UNCHANGED <<procs, today, src, tid, fs, saved, session>>

\* Delete pressed on item j
AdminDelete ==
  /\ ops < MaxOps
  /\ \E component_key \in AdminTabs :
       LET l == load_component_lists(components)
           items == ItemsOf(l.lists, component_key)
       IN \E j \in DOMAIN items :
            /\ components' =
                 SaveItems(l.lists, component_key,
                           RemoveFirst(items, items[j]))
            /\ out' = [NoOut EXCEPT !.op = "admin_delete", !.key = items[j].s]
  /\ ops' = ops + 1
  /\ UNCHANGED <<procs, today, src, tid, fs, saved, session>>

NextAdmin == AdminAdd \/ AdminUpdate \/ AdminDelete

SpecAdmin == InitAdmin /\ [][NextAdmin]_vars

(***************************************************************************)
(* Properties of the codec.                                                *)
(***************************************************************************)
\* s is one token of a test ID that cleaning leaves unchanged: not empty,
\* letters, digits and hyphens only
CleanSafe(s) ==
  /\ s # <<>>
  /\ \A i \in 1..Len(s) : s[i] \in Letters \cup DigitSet \cup {"-"}

AllCleanSafe(f) == \A i \in 1..9 : CleanSafe(f[TextFields[i]])

\* s can name a directory: it holds no NUL character
NoNul(s) == \A i \in 1..Len(s) : s[i] # NulChar

\* C1: for every field tuple whose text fields are single tokens that
\* cleaning leaves unchanged, load_test_data of the encoded test ID (nothing
\* stored under it) gives back every identifying field: date, distance, the nine text fields,
\* bullet weight, powder charge, COAL and B2O.
C1_RoundTrip ==
  (src.kind = "fields" /\ out.op = "load_test_data" /\ AllCleanSafe(src.f)) =>
    /\ out.err = "none"
    /\ out.data["date"] = PyStr(src.f.date)
    /\ PyEq(out.data["distance_m"], PyInt(src.f.distance_m))
    /\ out.data["platform.calibre"] = PyStr(src.f.calibre)
    /\ out.data["platform.rifle"] = PyStr(src.f.rifle)
    /\ out.data["ammo.case.brand"] = PyStr(src.f.case_brand)
    /\ out.data["ammo.bullet.brand"] = PyStr(src.f.bullet_brand)
    /\ out.data["ammo.bullet.model"] = PyStr(src.f.bullet_model)
    /\ PyEq(out.data["ammo.bullet.weight_gr"], PyFloat(src.f.bullet_weight))
    /\ out.data["ammo.powder.brand"] = PyStr(src.f.powder_brand)
    /\ out.data["ammo.powder.model"] = PyStr(src.f.powder_model)
    /\ PyEq(out.data["ammo.powder.charge_gr"], PyFloat(src.f.powder_charge))
    /\ PyEq(out.data["ammo.coal_in"], PyFloat(src.f.coal))
    /\ PyEq(out.data["ammo.b2o_in"], PyFloat(src.f.b2o))
    /\ out.data["ammo.primer.brand"] = PyStr(src.f.primer_brand)
    /\ out.data["ammo.primer.model"] = PyStr(src.f.primer_model)

\* the test ID of section 8's example
ExampleId ==
  <<"2", "0", "2", "5", "-", "0", "6", "-", "0", "1", "_", "_",
    "1", "0", "0", "m", "_", "2", "2", "3", "-", "R", "e", "m", "_",
    "T", "i", "k", "k", "a", "-", "T", "3", "x", "_",
    "L", "a", "p", "u", "a", "_", "H", "o", "r", "n", "a", "d", "y", "_",
    "E", "L", "D", "-", "M", "_", "7", "5", "g", "r", "_", "A", "D", "I", "_",
    "2", "2", "0", "8", "_", "2", "3", "g", "r", "_",
    "2", ".", "2", "6", "0", "i", "n", "_", "1", ".", "8", "0", "0", "i", "n",
    "_", "C", "C", "I", "_", "B", "R", "4">>

\* the cleaned form of each free-text value the inputs use, written out
CleanedText(s) ==
  CASE s = <<"A", " ", "B">> -> <<"A", "-", "B">>
    [] s = <<"A", "!", "B">> -> <<"A", "B">>
    [] s = <<" ", "A", " ", " ", "B">> -> <<"-", "A", "-", "B">>
    [] s = <<"!">> -> <<>>
    [] s = <<"2", "2", "3", " ", "R", "e", "m">> ->
         <<"2", "2", "3", "-", "R", "e", "m">>
    [] s = <<"T", "i", "k", "k", "a", " ", "T", "3", "x">> ->
         <<"T", "i", "k", "k", "a", "-", "T", "3", "x">>
    [] OTHER -> s

\* the five numeric segments of each numeric input, written out
NumSegments(f) ==
  LET nv == <<f.distance_m, f.bullet_weight, f.powder_charge, f.coal, f.b2o>>
  IN CASE nv = <<100, 750000, 235000, 22600, 18000>> ->
            << <<"1", "0", "0", "m">>, <<"7", "5", "g", "r">>,
               <<"2", "3", "g", "r">>, <<"2", ".", "2", "6", "0", "i", "n">>,
               <<"1", ".", "8", "0", "0", "i", "n">> >>
       [] nv = <<0, 5000, 230000, 22604, 0>> ->
            << <<"0", "m">>, <<"0", "g", "r">>, <<"2", "3", "g", "r">>,
               <<"2", ".", "2", "6", "0", "i", "n">>,
               <<"0", ".", "0", "0", "0", "i", "n">> >>
       [] nv = <<50, 759000, 9999, 4, 18006>> ->
            << <<"5", "0", "m">>, <<"7", "5", "g", "r">>, <<"0", "g", "r">>,
               <<"0", ".", "0", "0", "0", "i", "n">>,
               <<"1", ".", "8", "0", "1", "i", "n">> >>
       [] OTHER ->
            << <<"1", "0", "0", "0", "m">>, <<"1", "6", "8", "g", "r">>,
               <<"4", "3", "g", "r">>, <<"2", ".", "8", "0", "0", "i", "n">>,
               <<"2", ".", "2", "0", "0", "i", "n">> >>

\* the template of section 4.2, from the written-out segments
Template(f) ==
  LET ns == NumSegments(f) IN
  f.date \o <<"_", "_">> \o
  Join(<<ns[1], CleanedText(f.calibre), CleanedText(f.rifle),
         CleanedText(f.case_brand), CleanedText(f.bullet_brand),
         CleanedText(f.bullet_model), ns[2], CleanedText(f.powder_brand),
         CleanedText(f.powder_model), ns[3], ns[4], ns[5],
         CleanedText(f.primer_brand), CleanedText(f.primer_model)>>, <<"_">>)

\* C2: both encoders produce exactly the template: the date unchanged, a
\* double underscore, then distance+m, the cleaned text fields, the weights
\* truncated to integers +gr, COAL and B2O with three decimals +in, joined
\* by single underscores; the example of section 8 gives the ID written there.
C2_EncodeTemplate ==
  (src.kind = "fields"
     /\ out.op \in {"generate_test_id", "gtd_generate_test_id"}) =>
    /\ tid = Template(src.f)
    /\ (src.f = Example => tid = ExampleId)

C2_Witness ==
  /\ src.kind = "fields" /\ src.f = Example
  /\ out.op = "generate_test_id" /\ tid = ExampleId

\* the raw test ID has one double underscore followed by n tokens
WellFormedRaw ==
  /\ src.kind = "raw" /\ src.r.sep = "one"
  /\ \A i \in 1..Len(src.r.date) : src.r.date[i] # "_"
  /\ (src.r.pos \in 2..(src.r.n - 1) => src.r.tok # <<>>)
  /\ NoNul(tid)

\* token i of the raw test ID
Tok(i) == RawToks(src.r)[i]

\* what a token gives as a distance, when it is one of these
DistTable ==
  (<<"1", "0", "0", "m">> :> PyInt(100)) @@ (<<"7", "5">> :> PyInt(75)) @@
  (<<"-", "5", "m">> :> PyInt(0 - 5)) @@ (<<"X", "y">> :> PyInt(100)) @@
  (<<"7", ".", "5", "g", "r">> :> PyInt(100)) @@ (<<>> :> PyInt(100))

\* what a token gives as a weight or charge in grains
GrainTable ==
  (<<"7", "5", "g", "r">> :> PyFloat(750000)) @@
  (<<"2", "3", "g", "r">> :> PyFloat(230000)) @@
  (<<"7", "5">> :> PyFloat(750000)) @@
  (<<"7", ".", "5", "g", "r">> :> PyFloat(75000)) @@
  (<<"X", "y">> :> PyFloat(0)) @@ (<<"-", "5", "m">> :> PyFloat(0)) @@
  (<<"i", "n">> :> PyFloat(0))

\* what a token gives as a length in inches
InchTable ==
  (<<"2", ".", "2", "6", "0", "i", "n">> :> PyFloat(22600)) @@
  (<<"1", ".", "8", "0", "0", "i", "n">> :> PyFloat(18000)) @@
  (<<"7", "5">> :> PyFloat(750000)) @@ (<<"X", "y">> :> PyFloat(0)) @@
  (<<"7", ".", "5", "g", "r">> :> PyFloat(0)) @@ (<<"i", "n">> :> PyFloat(0))

\* the leaf at path holds what the table gives for token t
NumLeaf(path, t, table) == t \in DOMAIN table => out.data[path] = table[t]

\* C3: decoding a test ID of 14 or more tokens maps tokens 0..13 to
\* distance, calibre, rifle, case brand, bullet brand, bullet model, bullet
\* weight, powder brand, powder model, charge, COAL, B2O, primer brand,
\* primer model, and the decoded record carries each of them.
C3_CurrentLayout ==
  (WellFormedRaw /\ src.r.n >= 14 /\ out.op = "load_test_data") =>
    /\ out.err = "none"
    /\ NumLeaf("distance_m", Tok(1), DistTable)
    /\ out.data["platform.calibre"] = PyStr(Tok(2))
    /\ out.data["platform.rifle"] = PyStr(Tok(3))
    /\ out.data["ammo.case.brand"] = PyStr(Tok(4))
    /\ out.data["ammo.bullet.brand"] = PyStr(Tok(5))
    /\ out.data["ammo.bullet.model"] = PyStr(Tok(6))
    /\ NumLeaf("ammo.bullet.weight_gr", Tok(7), GrainTable)
    /\ out.data["ammo.powder.brand"] = PyStr(Tok(8))
    /\ out.data["ammo.powder.model"] = PyStr(Tok(9))
    /\ NumLeaf("ammo.powder.charge_gr", Tok(10), GrainTable)
    /\ NumLeaf("ammo.coal_in", Tok(11), InchTable)
    /\ NumLeaf("ammo.b2o_in", Tok(12), InchTable)
    /\ out.data["ammo.primer.brand"] = PyStr(Tok(13))
    /\ out.data["ammo.primer.model"] = PyStr(Tok(14))

DecodeOps == {"load_test_data", "app.parse_test_id", "editor.parse_test_id"}

\* C5: for every input string, app.parse_test_id, app.load_test_data and
\* editor.parse_test_id return a value and raise nothing to the caller.
C5_DecodeNeverRaises == out.op \in DecodeOps => out.err = "none"

\* the identifying leaves of a record
IdPaths ==
  {"date", "distance_m", "platform.calibre", "platform.rifle",
   "ammo.case.brand", "ammo.bullet.brand", "ammo.bullet.model",
   "ammo.bullet.weight_gr", "ammo.powder.brand", "ammo.powder.model",
   "ammo.powder.charge_gr", "ammo.coal_in", "ammo.b2o_in",
   "ammo.primer.brand", "ammo.primer.model"}

\* the raw test ID gives fewer than 9 tokens after one double underscore
ShortRaw ==
  /\ src.kind = "raw" /\ src.r.sep = "one" /\ src.r.n < 9
  /\ (src.r.pos \in 2..(src.r.n - 1) => src.r.tok # <<>>)

\* C6: decoding a string with fewer than 9 tokens after the double
\* underscore raises nothing and leaves every identifying field empty or at
\* its schema default: none is filled from the tokens that are present.
C6_ShortAllDefault ==
  /\ (ShortRaw /\ out.op = "app.parse_test_id") =>
       out.err = "none" /\ out.tuple = [i \in 1..14 |-> <<>>]
  /\ (ShortRaw /\ NoNul(tid) /\ out.op = "load_test_data") =>
       /\ out.err = "none"
       /\ \A q \in IdPaths : out.data[q] = create_empty_test_data(today)[q]

C6_Witness ==
  /\ ShortRaw /\ src.r.n = 8 /\ Len(src.r.date) = 8 /\ NoNul(tid)
  /\ out.op = "load_test_data" /\ out.err = "none"
  /\ out.data["date"] = PyStr(today)
  /\ out.data["platform.calibre"] = PyStr(<<>>)

\* the raw test ID has a second double underscore, after its n tokens of
\* the legacy layout: the text after the first double underscore splits
\* into the n tokens, an empty token and one more
SecondSeparator == src.kind = "raw" /\ src.r.sep = "two" /\ src.r.n \in 9..11

\* C23: a test ID with a further double underscore after the first is split
\* at the first one only: the date is the text before it and the fields are
\* decoded from all the text after it.
C23_SplitOnFirst ==
  SecondSeparator =>
    /\ out.op = "app.parse_test_id" =>
         /\ out.tuple[1] = src.r.date
         /\ out.tuple[3] = Tok(2) /\ out.tuple[4] = Tok(3)
         /\ out.tuple[7] = Tok(4) /\ out.tuple[14] = Tok(9)
    /\ out.op = "load_test_data" =>
         /\ out.err = "none"
         /\ out.data["platform.calibre"] = PyStr(Tok(2))
         /\ out.data["platform.rifle"] = PyStr(Tok(3))
         /\ out.data["ammo.bullet.model"] = PyStr(Tok(4))
    /\ out.op = "editor.parse_test_id" =>
         /\ out.data["platform.calibre"] = PyStr(Tok(2))
         /\ out.data["platform.rifle"] = PyStr(Tok(3))
         /\ out.data["ammo.bullet.model"] = PyStr(Tok(4))

\* the number of segments separated by single underscores in the text that
\* follows the first double underscore of a test ID whose date holds no
\* underscore: the split of the whole ID gives the date, an empty piece and
\* these segments
SegmentsAfterDate(test_id) == Len(Split(test_id, <<"_">>)) - 2

\* C24: every test ID the current encoder gives, whatever the text fields
\* hold (underscores, nothing), has exactly 14 segments separated by single
\* underscores after the double underscore that ends the date.
C24_FourteenSegments ==
  (src.kind = "fields"
     /\ out.op \in {"generate_test_id", "gtd_generate_test_id"}) =>
    SegmentsAfterDate(tid) = 14

\* C29: for every test ID made by editor.generate_test_id from fields
\* whose text cleaning leaves unchanged, load_test_data (nothing stored
\* under the ID) recovers the date, distance, calibre, rifle, bullet model,
\* bullet weight, powder model, charge, COAL to the thousandth and primer
\* model that were encoded.
C29_EditorIdsDecoded ==
  (src.kind = "editor" /\ out.op = "load_test_data" /\ AllCleanSafe(src.f)) =>
    /\ out.err = "none"
    /\ out.data["date"] = PyStr(src.f.date)
    /\ PyEq(out.data["distance_m"], PyInt(src.f.distance_m))
    /\ out.data["platform.calibre"] = PyStr(src.f.calibre)
    /\ out.data["platform.rifle"] = PyStr(src.f.rifle)
    /\ out.data["ammo.bullet.model"] = PyStr(src.f.bullet_model)
    /\ PyEq(out.data["ammo.bullet.weight_gr"], PyFloat(src.f.bullet_weight))
    /\ out.data["ammo.powder.model"] = PyStr(src.f.powder_model)
    /\ PyEq(out.data["ammo.powder.charge_gr"], PyFloat(src.f.powder_charge))
    /\ PyEq(out.data["ammo.coal_in"], PyFloat(ParseFloat(Format3(src.f.coal)).n))
    /\ out.data["ammo.primer.model"] = PyStr(src.f.primer_model)

\* what load_test_data does give for such a test ID: every one of these
\* fields but the primer model, in whose place it puts the B2O token
EditorIdsDecodedButPrimer ==
  (src.kind = "editor" /\ out.op = "load_test_data" /\ AllCleanSafe(src.f)) =>
    /\ out.err = "none"
    /\ out.data["date"] = PyStr(src.f.date)
    /\ PyEq(out.data["distance_m"], PyInt(src.f.distance_m))
    /\ out.data["platform.calibre"] = PyStr(src.f.calibre)
    /\ out.data["platform.rifle"] = PyStr(src.f.rifle)
    /\ out.data["ammo.bullet.model"] = PyStr(src.f.bullet_model)
    /\ PyEq(out.data["ammo.bullet.weight_gr"], PyFloat(src.f.bullet_weight))
    /\ out.data["ammo.powder.model"] = PyStr(src.f.powder_model)
    /\ PyEq(out.data["ammo.powder.charge_gr"], PyFloat(src.f.powder_charge))
    /\ PyEq(out.data["ammo.coal_in"], PyFloat(ParseFloat(Format3(src.f.coal)).n))
    /\ out.data["ammo.primer.model"] = PyStr(Format3(src.f.b2o) \o <<"i", "n">>)

(***************************************************************************)
(* Properties of the store.                                                *)
(***************************************************************************)
\* the two records hold the same leaves with equal values
SameRecord(a, b) ==
  DOMAIN a = DOMAIN b /\ \A q \in DOMAIN a : PyEq(a[q], b[q])

\* every float leaf of the record has at most three decimal digits
AtMostThreeDecimals(data) ==
  \A q \in DOMAIN data : data[q].k = "float" => data[q].n % (Scale \div 1000) = 0

\* C7 as claimed: for every non-empty key and every record, a load that
\* follows a save of the key returns the saved record, leaf for leaf, each
\* number with its value.
C7_SaveLoadRoundTrip ==
  (out.op = "get_test_data" /\ out.key # <<>> /\ out.key \in DOMAIN saved) =>
    out.err = "none" /\ SameRecord(out.data, saved[out.key])

\* C7 as amended: for every non-empty key and every record whose float
\* leaves have at most three decimal digits, a load that follows a
\* completed save of the key returns the saved record, leaf for leaf, each
\* number with its value (1.0, 1.5 and 2 stay apart).
C7_SaveLoadThreeDecimals ==
  (out.op = "get_test_data" /\ out.key # <<>> /\ out.key \in DOMAIN saved
     /\ AtMostThreeDecimals(saved[out.key])) =>
    out.err = "none" /\ SameRecord(out.data, saved[out.key])

C7_Witness ==
  /\ out.op = "get_test_data" /\ out.key = <<"k", "1">>
  /\ out.key \in DOMAIN saved
  /\ out.err = "none"
  /\ {"ammo.coal_in", "notes"} \subseteq DOMAIN saved[out.key]
  /\ {"ammo.coal_in", "notes"} \subseteq DOMAIN out.data
  /\ saved[out.key]["ammo.coal_in"] = PyFloat(15000)
  /\ saved[out.key]["notes"] = PyStr(<<"N", "o">>)
  /\ out.data["ammo.coal_in"] = PyFloat(15000)
  /\ out.data["notes"] = PyStr(<<"N", "o">>)

\* the document stored for a key whose save returned normally
StoredDoc(key) ==
  IF key = <<>> THEN fs.ent[GroupYaml].doc ELSE fs.ent[key].doc

\* the digits after the point of a text that has one
Decimals(text) == SubSeq(text, DotPos(text) + 1, Len(text))

\* C8: save writes a float that equals its integer truncation without a
\* decimal point, and every other float with a point followed by one to
\* three digits, trailing zeros trimmed.
C8_FloatText ==
  \A key \in DOMAIN saved \ {<<>>} : \A q \in DOMAIN saved[key] :
    saved[key][q].k = "float" =>
      LET text == StoredDoc(key).nodes[q].text IN
      IF saved[key][q].n % Scale = 0 THEN DotPos(text) = 0
      ELSE /\ DotPos(text) # 0
           /\ Len(Decimals(text)) \in 1..3
           /\ (Len(Decimals(text)) > 1 => text[Len(text)] # "0")

SavePaths ==
  {"save_test_data", "app_form_submit", "editor_form_submit", "generate_id"}

\* C9: on every save path a save with an empty test_id fails explicitly and
\* creates or modifies no directory and no file.
C9_EmptyIdRejected ==
  [][(ops' # ops /\ out'.op \in SavePaths /\ out'.key = <<>>) =>
       (out'.err # "none" /\ fs' = fs)]_vars

\* C10: a load of a key that was never saved returns the empty mapping and
\* raises nothing, whatever saves to other keys came before.
C10_LoadUnsaved ==
  (out.op = "get_test_data" /\ out.key \notin DOMAIN saved) =>
    out.err = "none" /\ out.data = EmptyMap

\* the key can name a folder of its own under tests
FolderName(key) == key # <<>> /\ NoNul(key)

\* a regular file stands where the folder of the key would be
FileInTheWay(key) == key \in DOMAIN fs.ent /\ fs.ent[key].kind = "file"

C18_EmptyRecordDefaults ==
  \A e \in {create_empty_test_data(today),
            editor_create_empty_test_data(today)} :
    /\ DOMAIN e = DOMAIN create_empty_test_data(today)
    /\ FormBackfilled \subseteq DOMAIN e
    /\ \A q \in DOMAIN e :
         CASE q = "group.shots" -> e[q] = PyInt(5)
           [] q = "environment.weather" ->
                e[q] = PyStr(<<"C", "l", "e", "a", "r">>)
           [] q = "files.chrono_csv" ->
                e[q] = PyStr(<<"c", "h", "r", "o", "n", "o", ".", "c", "s", "v">>)
           [] q = "files.target_photo" ->
                e[q] = PyStr(<<"t", "a", "r", "g", "e", "t", ".", "j", "p", "g">>)
           [] q = "date" -> e[q] = PyStr(today)
           [] OTHER -> IF IsNum(e[q]) THEN e[q].n = 0 ELSE e[q] = PyStr(<<>>)

\* the documented defaults of the leaves added to the schema later
OptionalDefaults ==
  ("ammo.case.neck_turned" :> PyStr(<<"N", "o">>)) @@
  ("ammo.case.brass_sizing" :> PyStr(<<"F", "u", "l", "l">>)) @@
  ("ammo.case.bushing_size" :> PyFloat(0)) @@
  ("ammo.case.shoulder_bump" :> PyFloat(0)) @@
  ("ammo.b2o_in" :> PyFloat(0))

\* app.main backfills: when it loads a stored record that lacks some of the
\* five later leaves (and no other leaf) and shows it in the form, no error
\* is raised and the record the form gives has the documented default in
\* each of them.
AppFormBackfills ==
  (out.op = "app_form_submit"
     /\ DOMAIN create_empty_test_data(StoreToday) \ FormBackfilled
          \subseteq out.prior) =>
    /\ out.err = "none"
    /\ \A q \in DOMAIN OptionalDefaults \ out.prior :
         q \in DOMAIN out.data /\ out.data[q] = OptionalDefaults[q]

AppFormBackfillsReached ==
  /\ out.op = "app_form_submit" /\ out.err = "none"
  /\ out.prior # {}
  /\ out.prior \cap DOMAIN OptionalDefaults = {}
  /\ DOMAIN OptionalDefaults \subseteq DOMAIN out.data
  /\ out.data["ammo.case.neck_turned"] = PyStr(<<"N", "o">>)
  /\ out.data["ammo.case.brass_sizing"] = PyStr(<<"F", "u", "l", "l">>)

\* the text is one path segment: not empty, no separator
OneSegment(s) == s # <<>> /\ \A i \in 1..Len(s) : s[i] # "/"

\* C20: every test ID under which a save has stored a record, on any save
\* path, is one path segment: not empty and free of the path separator.
C20_PersistedIdIsSegment == \A key \in DOMAIN saved : OneSegment(key)

\* the encoder's side of it: every test ID an encoder gives is one path
\* segment made of word characters, hyphens and the points of its numbers
EncodedIdIsSegment ==
  out.op \in {"generate_test_id", "gtd_generate_test_id"} =>
    /\ OneSegment(tid)
    /\ \A i \in 1..Len(tid) : IsWord(tid[i]) \/ tid[i] \in {"-", "."}

\* the names utils.get_test_folders() gives
ListKeys == get_test_folders(fs).names

\* C22: whatever save, load and list operations have run, every key under
\* which a save has completed is among the listed keys, and a load of it
\* returns the complete record of the last save to it.
C22_NeverDestroyed ==
  \A key \in DOMAIN saved :
    /\ key \in ListKeys
    /\ get_test_data(fs, key).err = "none"
    /\ SameRecord(get_test_data(fs, key).data, saved[key])

\* the same for the keys that can name a folder and the records whose
\* float leaves have at most three decimal digits
NamedKeysNeverDestroyed ==
  \A key \in DOMAIN saved :
    (FolderName(key) /\ AtMostThreeDecimals(saved[key])) =>
      /\ key \in ListKeys
      /\ get_test_data(fs, key).err = "none"
      /\ SameRecord(get_test_data(fs, key).data, saved[key])

\* the step leaves each of the keys but id as it was: what is stored under
\* it, what a load of it gives, and whether it is listed
OthersUntouched(id, keys) ==
  /\ \A k \in keys \ {id} :
       /\ get_test_data(fs', k) = get_test_data(fs, k)
       /\ k \in DOMAIN fs.ent <=> k \in DOMAIN fs'.ent
       /\ k \in DOMAIN fs.ent => fs'.ent[k] = fs.ent[k]
  /\ get_test_folders(fs').names \ {id} = ListKeys \ {id}

\* C25: a save under id, on any save path, changes only the storage unit of
\* id: for every other key the stored content and the result of a load are
\* as before, and the listed keys change at most by gaining id.
C25_SaveFrame ==
  [][(ops' # ops /\ out'.op \in SavePaths) =>
       OthersUntouched(out'.key, KeyVals \cup DOMAIN fs'.ent)]_vars

\* the same among the keys that can name a folder
NamedSaveFrame ==
  [][(ops' # ops /\ out'.op \in SavePaths /\ FolderName(out'.key)) =>
       OthersUntouched(out'.key,
                       {k \in KeyVals \cup DOMAIN fs'.ent : FolderName(k)})]_vars

\* C26: the test ID is a unique key: when Generate Test ID or the generator
\* of random tests saves a new test under an ID that already holds a
\* record, the identifying fields of that record are those of the new test,
\* so no record of a different test is overwritten.
C26_IdUnique ==
  [][(ops' # ops /\ out'.op \in {"generate_id", "generate_test_data"}
        /\ out'.err = "none" /\ out'.key \in DOMAIN saved
        /\ IdPaths \subseteq DOMAIN saved[out'.key]) =>
       \A q \in IdPaths : PyEq(saved[out'.key][q], out'.data[q])]_vars

\* the keys under which a group.yaml is stored
StoredKeys ==
  {k \in DOMAIN fs.ent : fs.ent[k].kind = "dir" /\ fs.ent[k].has}

\* C27: after any sequence of Generate Test ID, form saves and passes of
\* the generator of random tests, every record stored under a key k loads
\* with a test_id leaf equal to k.
C27_PersistedIdIsKey ==
  \A k \in StoredKeys :
    /\ get_test_data(fs, k).err = "none"
    /\ "test_id" \in DOMAIN get_test_data(fs, k).data
    /\ get_test_data(fs, k).data["test_id"] = PyStr(k)

\* the form of app.main has saved the test generated in this session
C27_Witness ==
  /\ out.op = "app_form_submit" /\ out.err = "none"
  /\ session # <<>> /\ out.key = session /\ session \in StoredKeys

(***************************************************************************)
(* Properties of the bulk load.                                            *)
(***************************************************************************)
\* the group.yaml stored under the key holds text that is no YAML document
Malformed(key) ==
  /\ key \in DOMAIN fs.ent
  /\ fs.ent[key].kind = "dir" /\ fs.ent[key].has /\ ~fs.ent[key].doc.wf

\* C11: a load of a key whose stored content is malformed returns the empty
\* mapping and raises nothing.
C11_MalformedLoadsEmpty ==
  (out.op = "get_test_data" /\ Malformed(out.key)) =>
    out.err = "none" /\ out.data = EmptyMap

\* the folder of the key holds a group.yaml whose content is a YAML
\* document with at least one leaf
StoredRecord(key) ==
  /\ key \in DOMAIN fs.ent
  /\ fs.ent[key].kind = "dir" /\ fs.ent[key].has /\ fs.ent[key].doc.wf
  /\ fs.ent[key].doc.nodes # EmptyMap

\* the folder of the key holds no group.yaml
NotFound(key) ==
  key \in DOMAIN fs.ent /\ fs.ent[key].kind = "dir" /\ ~fs.ent[key].has

\* the record a load of the key gives when StoredRecord(key)
StoredData(key) == yaml_safe_load(fs.ent[key].doc)

\* the keys the bulk load enumerated, the keys of its rows, the keys it
\* printed
Listed == {out.tuple[i] : i \in DOMAIN out.tuple}

RowKeys == [i \in DOMAIN out.rows |-> out.rows[i]["test_id"].s]

Logged == {out.log[i] : i \in DOMAIN out.log}

\* C12: the bulk load returns exactly one row for each listed key that
\* holds a record, and no other row; it prints the key of every listed
\* folder whose load gave "not found" or raised.
C12_BulkFailSoft ==
  out.op = "load_all_test_data" =>
    /\ Len(out.rows) = Cardinality({k \in Listed : StoredRecord(k)})
    /\ {RowKeys[i] : i \in DOMAIN RowKeys} = {k \in Listed : StoredRecord(k)}
    /\ Logged = {k \in Listed : Malformed(k) \/ NotFound(k)}

\* C13: in every row, the column of a leaf that the stored record lacks
\* holds the value this leaf has in the defaulted empty record.
C13_FlattenSchemaDefaults ==
  out.op = "load_all_test_data" =>
    \A i \in DOMAIN out.rows : \A j \in DOMAIN FlatColumns :
      FlatColumns[j][2] \notin DOMAIN StoredData(RowKeys[i]) =>
        PyEq(out.rows[i][FlatColumns[j][1]],
             create_empty_test_data(today)[FlatColumns[j][2]])

\* the fixed set of columns of a row
ColumnNames == {"test_id"} \cup {FlatColumns[j][1] : j \in DOMAIN FlatColumns}

\* C14: every listed key that holds a record with at least one leaf, any
\* other leaves or sections absent, gets a row with the fixed set of
\* columns and is not reported as failed; a record without
\* ammo.case.shoulder_bump has 0.0 in the column shoulder_bump.
C14_FlattenTotal ==
  out.op = "load_all_test_data" =>
    \A k \in {x \in Listed : StoredRecord(x)} :
      /\ k \notin Logged
      /\ \E i \in DOMAIN out.rows :
           /\ RowKeys[i] = k
           /\ DOMAIN out.rows[i] = ColumnNames
           /\ "ammo.case.shoulder_bump" \notin DOMAIN StoredData(k) =>
                out.rows[i]["shoulder_bump"] = PyFloat(0)

C14_Witness ==
  /\ out.op = "load_all_test_data"
  /\ Len(out.rows) = 2
  /\ \E i, j \in DOMAIN out.rows :
       /\ DOMAIN StoredData(RowKeys[i]) =
            {"ammo.coal_in", "group.shots", "notes"}
       /\ out.rows[i]["shoulder_bump"] = PyFloat(0)
       /\ out.rows[i]["coal_in"] = PyFloat(22600)
       /\ "environment.weather" \notin DOMAIN StoredData(RowKeys[j])
       /\ "ammo.case.shoulder_bump" \in DOMAIN StoredData(RowKeys[j])
       /\ DOMAIN out.rows[i] = DOMAIN out.rows[j]

\* C15: every row has the column test_id and one column for every other
\* leaf of the record schema, the leaves of the section files included.
C15_RowHasEveryLeaf ==
  out.op = "load_all_test_data" =>
    \A i \in DOMAIN out.rows :
      /\ "test_id" \in DOMAIN out.rows[i]
      /\ \A p \in DOMAIN create_empty_test_data(today) \ {"test_id"} :
           \E j \in DOMAIN FlatColumns :
             FlatColumns[j][2] = p /\ FlatColumns[j][1] \in DOMAIN out.rows[i]

\* C16: the keys of the rows are the enumerated keys that hold a record,
\* in the order of the enumeration, each once.
C16_RowsInListOrder ==
  out.op = "load_all_test_data" =>
    RowKeys = SelectSeq(out.tuple, StoredRecord)

C16_Witness ==
  /\ out.op = "load_all_test_data"
  /\ out.tuple = <<<<"k", "3">>, <<"k", "1">>, <<"k", "2">>>>
  /\ Malformed(<<"k", "1">>)
  /\ RowKeys = <<<<"k", "3">>, <<"k", "2">>>>

\* C19: a code path that loads a stored record lacking some of the five
\* later leaves reads the documented default in each of them ("No",
\* "Full", 0.0, 0.0, 0.0) and raises nothing: here the bulk load, whose
\* rows are what it read.
C19_OptionalDefaultOnRead ==
  out.op = "load_all_test_data" =>
    \A k \in {x \in Listed : StoredRecord(x)} :
      /\ k \notin Logged
      /\ \A i \in DOMAIN out.rows : \A j \in DOMAIN FlatColumns :
           (RowKeys[i] = k
              /\ FlatColumns[j][2] \in
                   DOMAIN OptionalDefaults \ DOMAIN StoredData(k)) =>
             PyEq(out.rows[i][FlatColumns[j][1]],
                  OptionalDefaults[FlatColumns[j][2]])

(***************************************************************************)
(* Properties of concurrent saves and loads.                               *)
(***************************************************************************)
\* the processes whose save has completed
Done == {p \in DOMAIN procs : procs[p].pc = "done"}

\* C21: after two saves to one key have run in any interleaving and both
\* have completed, a load of the key raises nothing and returns one of the
\* two saved records: no mixture of both, no empty and no unparseable
\* record.
C21_LastWriteWins ==
  (Len(procs) = 2 /\ Done = {1, 2}) =>
    /\ get_test_data(fs, RaceKey).err = "none"
    /\ \E p \in DOMAIN procs :
         SameRecord(get_test_data(fs, RaceKey).data, procs[p].data)

\* the record is the one stored before the save in progress, or the one
\* being saved
BeforeOrBeingSaved(data) ==
  \/ SameRecord(data, saved[RaceKey])
  \/ \E p \in DOMAIN procs \ Done : SameRecord(data, procs[p].data)

\* C28: a load or a bulk load that runs while one save of the key has
\* completed and another is under way gives the record stored before or
\* the record being saved: utils.get_test_data and app.load_test_data
\* return it and raise nothing, and the bulk load has the row of it.
C28_LoadSeesWholeRecord ==
  [][(procs' = procs /\ fs' = fs /\ out' # out /\ Len(procs) = 2
        /\ Cardinality(Done) = 1) =>
       IF out'.op = "load_all_test_data"
       THEN /\ Len(out'.rows) = 1
            /\ \E r \in RaceRecords :
                 BeforeOrBeingSaved(r) /\ out'.rows[1] = Flatten(RaceKey, r)
       ELSE out'.err = "none" /\ BeforeOrBeingSaved(out'.data)]_vars

(***************************************************************************)
(* Properties of the component lists.                                      *)
(***************************************************************************)
\* the list holds no value twice
NoDuplicates(items) ==
  \A i, j \in 1..Len(items) : i # j => ~PyEq(items[i], items[j])

\* C30: after any sequence of Add, Update and Delete on the admin page, no
\* list of the stored component file holds a value twice.
C30_ListsDuplicateFree ==
  \A c \in DOMAIN components.lists : NoDuplicates(LoadLists(components)[c])

\* what does hold: Add never makes a duplicate, and Delete never does in
\* a list that had none; only Update can
AddDeleteKeepDuplicateFree ==
  [][(ops' # ops /\ out'.op \in {"admin_add", "admin_delete"}) =>
       \A c \in DOMAIN components'.lists :
         (c \in DOMAIN components.lists =>
            NoDuplicates(LoadLists(components)[c]))
           => NoDuplicates(LoadLists(components')[c])]_vars

====
